---------------------------- MODULE Spec2Model ----------------------------
(***************************************************************************)
(* Selection-to-insight pipeline of the document viewer page               *)
(* (DocumentViewPage, PdfViewer, BulkPdfUpload, ApiClient).                *)
(*                                                                         *)
(* The specifications of the module:                                       *)
(*   Spec         the page: navigation, debounce timer, selection,         *)
(*                Analyze-Page and insights runs, the rendering-surface    *)
(*                instances and the highlight synchronisation;             *)
(*   SpecPipeline, SpecInsights, SpecViews                                 *)
(*                the page with one of the Insights button, the Analyze    *)
(*                Page button and the bulk upload in play;                 *)
(*   SpecAdapter  the page with its raw selection events made by the       *)
(*                selection listeners of PdfViewer;                        *)
(*   SpecLive     the page of a user who stays in the viewer, under fair   *)
(*                completion of timers, captures and requests;             *)
(*   SpecNorm     the response normaliser of extractAndSearch applied to a *)
(*                bounded family of response payloads;                     *)
(*   SpecGateway  the operations of ApiClient, each called once and        *)
(*                answered by one of a bounded family of responses.        *)
(*                                                                         *)
(* Conventions.  A nullable string-valued field holds Null when it is      *)
(* null; a nullable handle or timer id holds 0.  JSON values of a response *)
(* are tagged records [t |-> type, v |-> value].  Scores and distances     *)
(* are fixed-point numbers in hundredths (0.8 is 80).  Texts are sequences *)
(* of one-character strings.                                               *)
(***************************************************************************)
EXTENDS Integers, Sequences, FiniteSets, TLC

VARIABLES
    \* ---- DocumentViewPage state (page.tsx 37-47)
    document,           \* name of the loaded DocumentFile, or Null
    viewerApis,         \* capability handle: id of the surface instance, 0 = null
    recommendations,    \* sequence of recommendation records
    isLoading,
    error,              \* error string or Null
    annotations,        \* sequence of highlight annotations
    insights,           \* insight payload or Null (setInsights(data) is never
                        \* reached, see InsightsPrepDone)
    isInsightsLoading,
    currentView,        \* "upload" | "library" | "viewer"
    selectedDocument,   \* name of the selected library document, or Null
    selectionTimerRef,  \* id of the last timer set, 0 = null
    \* ---- browser timers and asynchronous runs
    timers,             \* pending debounce timers: set of [id, text, apis, origin]
    nextTimer,          \* id the next setTimeout returns
    runs,               \* run id -> record of one selection or Analyze-Page run
    nRuns,              \* number of such runs started so far
    insightsRun,        \* the handleFetchInsights call in flight: [pc, reqs],
                        \* reqs the requests it has sent
    \* ---- rendering surface (PdfViewer instances)
    mounted,            \* id of the mounted PdfViewer instance, 0 = none
    inst,               \* instance id -> [pc, hl, seen]
    nInst,              \* number of PdfViewer instances created so far
    \* ---- history (not program state)
    lastEventText,      \* text of the most recent raw selection event
    burstLen,           \* raw selection events since the last timer fire
    calls,              \* calls the last step made on rendering surfaces
    enterDirty,         \* how much transient state the last entry into the viewer found set
    dropped,            \* recommendations chosen with a null handle on the
                        \* mounted instance and not chosen with a handle since
    \* ---- normaliser harness (SpecNorm)
    payload,            \* the response payload under normalisation
    normOut,            \* what extractAndSearch returned for it
    \* ---- gateway harness (SpecGateway)
    gate,               \* one ApiClient call: [pc, op, requests, response, result]
    \* ---- BulkPdfUpload (part_003)
    upload,             \* [status, files, others, isUploading, own, orphans,
                        \*  started, completed, rejected]
    \* ---- PdfViewer's selection listeners (DocumentLibrary.tsx 344-420)
    sel                 \* one selection-ended event under way: [pc, via, on, last]

pageVars == <<document, viewerApis, recommendations, isLoading, error,
              annotations, insights, isInsightsLoading, currentView,
              selectedDocument, selectionTimerRef>>
asyncVars == <<timers, nextTimer, runs, nRuns, insightsRun>>
surfaceVars == <<mounted, inst, nInst>>
histVars == <<lastEventText, burstLen, calls, enterDirty, dropped>>
normVars == <<payload, normOut>>
\* what the page's own handlers never touch
quietVars == <<normVars, gate, sel>>
otherVars == <<quietVars, upload>>
vars == <<pageVars, asyncVars, surfaceVars, histVars, otherVars>>

-----------------------------------------------------------------------------
(* Bounds of the model *)

MaxTimers == 2
MaxRuns == 2
MaxLoads == 2
MaxUploads == 2

(* Program constants *)

MaxRecs == 3
SnippetMax == 200
MaxFiles == 30

Null == "null"

-----------------------------------------------------------------------------
(* Texts: String.prototype.trim and the emptiness test of                  *)
(* processSelectionWithScreenshot                                          *)

RECURSIVE TrimLeft(_)
TrimLeft(s) ==
    IF s # <<>> /\ Head(s) = " " THEN TrimLeft(Tail(s)) ELSE s

RECURSIVE TrimRight(_)
TrimRight(s) ==
    IF s # <<>> /\ s[Len(s)] = " " THEN TrimRight(SubSeq(s, 1, Len(s) - 1)) ELSE s

Trim(s) == TrimRight(TrimLeft(s))

\* !text || !text.trim()
IsBlank(text) == text = <<>> \/ Trim(text) = <<>>

Texts == { <<>>, <<" ">>, <<"a">>, <<" ", "b">> }

-----------------------------------------------------------------------------
(* JSON values of a response body.  Numbers are fixed-point hundredths.    *)

Fix(n) == n * 100

Undef == [t |-> "undefined", v |-> 0]
JNull == [t |-> "null", v |-> 0]
Num(n) == [t |-> "number", v |-> n]
Str(s) == [t |-> "string", v |-> s]
Arr(a) == [t |-> "array", v |-> a]
Obj(o) == [t |-> "object", v |-> o]
NaN == [t |-> "NaN", v |-> 0]

\* Array.isArray(x)
IsArray(x) == x.t = "array"

\* x?.field
Get(x, field) ==
    IF x.t = "object" /\ field \in DOMAIN x.v THEN x.v[field] ELSE Undef

\* x?.[i], i counted from 0
Index(x, i) ==
    IF x.t = "array" /\ i + 1 \in 1..Len(x.v) THEN x.v[i + 1] ELSE Undef

\* JavaScript truthiness, as used by || and by if (...)
Truthy(x) ==
    CASE x.t = "undefined" -> FALSE
      [] x.t = "null" -> FALSE
      [] x.t = "NaN" -> FALSE
      [] x.t = "number" -> x.v # 0
      [] x.t = "string" -> x.v # <<>>
      [] OTHER -> TRUE

Digits == <<"0", "1", "2", "3", "4", "5", "6", "7", "8", "9">>
IsDigit(c) == \E d \in 1..10 : Digits[d] = c
DigitVal(c) == (CHOOSE d \in 1..10 : Digits[d] = c) - 1

\* index of the first character at or after i that is not a blank
RECURSIVE SkipWs(_, _)
SkipWs(s, i) ==
    IF i <= Len(s) /\ s[i] = " " THEN SkipWs(s, i + 1) ELSE i

\* the digits of s starting at i: [n |-> their value, k |-> how many]
RECURSIVE ScanDigits(_, _, _, _)
ScanDigits(s, i, n, k) ==
    IF i <= Len(s) /\ IsDigit(s[i])
    THEN ScanDigits(s, i + 1, 10 * n + DigitVal(s[i]), k + 1)
    ELSE [n |-> n, k |-> k]

\* the first two of the k fraction digits at position p, as hundredths
Hundredths(s, p, k) ==
    (IF k >= 1 THEN 10 * DigitVal(s[p]) ELSE 0)
        + (IF k >= 2 THEN DigitVal(s[p + 1]) ELSE 0)

\* the literal at i whose digits start at j (j > i after a minus sign), with
\* integer digits ip and, when hasFrac, fraction digits fp: [ok, val, pos]
NumberOf(s, i, j, strict, ip, hasFrac, fp) ==
    IF \/ strict /\ (ip.k = 0 \/ (hasFrac /\ fp.k = 0) \/ (ip.k >= 2 /\ s[j] = "0"))
       \/ ~strict /\ ip.k = 0 /\ fp.k = 0
    THEN [ok |-> FALSE, val |-> NaN, pos |-> i]
    ELSE [ok |-> TRUE,
          val |-> Num((IF j > i THEN 0 - 1 ELSE 1)
                        * (Fix(ip.n) + Hundredths(s, j + ip.k + 1, fp.k))),
          pos |-> j + ip.k + (IF hasFrac THEN 1 + fp.k ELSE 0)]

ScanFraction(s, i, j, strict, ip) ==
    IF j + ip.k <= Len(s) /\ s[j + ip.k] = "."
    THEN NumberOf(s, i, j, strict, ip, TRUE, ScanDigits(s, j + ip.k + 1, 0, 0))
    ELSE NumberOf(s, i, j, strict, ip, FALSE, [n |-> 0, k |-> 0])

\* A decimal literal -?digits(.digits)? at position i: [ok, val, pos], val in
\* hundredths (fraction digits beyond the second are dropped).  strict is the
\* JSON grammar (digits on both sides of the point, no leading zero before
\* another digit); Number() accepts "5." and ".5" and leading zeros as well.
ScanNumber(s, i, strict) ==
    IF i <= Len(s) /\ s[i] = "-"
    THEN ScanFraction(s, i, i + 1, strict, ScanDigits(s, i + 1, 0, 0))
    ELSE ScanFraction(s, i, i, strict, ScanDigits(s, i, 0, 0))

\* index of the next double quote at or after i, Len(s)+1 when there is none
RECURSIVE FindQuote(_, _)
FindQuote(s, i) ==
    IF i <= Len(s) /\ s[i] # "\"" THEN FindQuote(s, i + 1) ELSE i

StartsWith(s, i, w) ==
    i + Len(w) - 1 <= Len(s) /\ SubSeq(s, i, i + Len(w) - 1) = w

ParseFail(i) == [ok |-> FALSE, val |-> Undef, pos |-> i]

\* a string literal opened at i and closed by the quote at q
StringTo(s, i, q) ==
    IF q > Len(s) THEN ParseFail(i)
    ELSE [ok |-> TRUE, val |-> Str(SubSeq(s, i + 1, q - 1)), pos |-> q + 1]

NumberOrFail(n, i) == IF n.ok THEN n ELSE ParseFail(i)

\* JSON.parse restricted to arrays, decimal numbers, strings without escapes
\* and null: the value starting at position i, [ok, val, pos].
RECURSIVE ParseValue(_, _)
RECURSIVE ParseAt(_, _)
RECURSIVE ParseArray(_, _)
RECURSIVE ParseElems(_, _, _)
RECURSIVE AfterElem(_, _, _, _)
RECURSIVE AfterElemAt(_, _, _, _)
ParseValue(s, i) == ParseAt(s, SkipWs(s, i))

\* the value at i, which is not a blank
ParseAt(s, i) ==
    IF i > Len(s) THEN ParseFail(i)
    ELSE IF s[i] = "[" THEN ParseArray(s, SkipWs(s, i + 1))
    ELSE IF s[i] = "\"" THEN StringTo(s, i, FindQuote(s, i + 1))
    ELSE IF StartsWith(s, i, <<"n", "u", "l", "l">>)
    THEN [ok |-> TRUE, val |-> JNull, pos |-> i + 4]
    ELSE NumberOrFail(ScanNumber(s, i, TRUE), i)

\* what follows "[", from the first non-blank j on
ParseArray(s, j) ==
    IF j <= Len(s) /\ s[j] = "]"
    THEN [ok |-> TRUE, val |-> Arr(<<>>), pos |-> j + 1]
    ELSE ParseElems(s, j, <<>>)

\* the elements of an array from i on, up to and including "]"
ParseElems(s, i, acc) == AfterElem(s, i, acc, ParseValue(s, i))

AfterElem(s, i, acc, e) ==
    IF ~e.ok THEN ParseFail(i)
    ELSE AfterElemAt(s, i, Append(acc, e.val), SkipWs(s, e.pos))

AfterElemAt(s, i, acc, j) ==
    IF j > Len(s) THEN ParseFail(i)
    ELSE IF s[j] = "]" THEN [ok |-> TRUE, val |-> Arr(acc), pos |-> j + 1]
    ELSE IF s[j] = "," THEN ParseElems(s, j + 1, acc)
    ELSE ParseFail(i)

\* the parse r is the whole of s
WholeText(s, r) ==
    IF r.ok /\ SkipWs(s, r.pos) > Len(s)
    THEN [ok |-> TRUE, val |-> r.val]
    ELSE [ok |-> FALSE, val |-> Undef]

\* JSON.parse(s): [ok |-> FALSE] stands for the SyntaxError it throws
JSONParse(s) == WholeText(s, ParseValue(s, 1))

\* s.replace(/'/g, '"')
ReplaceQuotes(s) == [k \in 1..Len(s) |-> IF s[k] = "'" THEN "\"" ELSE s[k]]

WholeNumber(s, n) == IF n.ok /\ n.pos > Len(s) THEN n.val ELSE NaN

\* Number(s) of a string already trimmed
StringToNumber(s) ==
    IF s = <<>> THEN Num(0) ELSE WholeNumber(s, ScanNumber(s, 1, FALSE))

\* Number(x)
RECURSIVE ToNumber(_)
ToNumber(x) ==
    CASE x.t = "number" -> x
      [] x.t = "null" -> Num(0)
      [] x.t = "string" -> StringToNumber(Trim(x.v))
      [] x.t = "array" ->
            IF Len(x.v) = 0 THEN Num(0)
            ELSE IF Len(x.v) > 1 THEN NaN
            ELSE IF x.v[1].t \in {"null", "undefined"} THEN Num(0)
            ELSE IF x.v[1].t = "object" THEN NaN
            ELSE ToNumber(x.v[1])
      [] OTHER -> NaN

OrZero(n) == IF Truthy(n) THEN n.v ELSE 0

\* Number(x) || 0
NumberOr0(x) == OrZero(ToNumber(x))

-----------------------------------------------------------------------------
(* ApiClient.extractAndSearch: the normalisation of a parsed response body *)

\* decimal digits of a natural number
RECURSIVE NatToStr(_)
NatToStr(n) ==
    IF n < 10 THEN <<Digits[n + 1]>>
    ELSE NatToStr(n \div 10) \o <<Digits[(n % 10) + 1]>>

\* String(x) for the values the normaliser converts: strings, whole
\* non-negative numbers, null and undefined
ToStr(x) ==
    CASE x.t = "string" -> x.v
      [] x.t = "number" /\ x.v >= 0 /\ x.v % 100 = 0 -> NatToStr(x.v \div 100)
      [] x.t = "null" -> <<"n", "u", "l", "l">>
      [] x.t = "undefined" -> <<"u", "n", "d", "e", "f", "i", "n", "e", "d">>
      [] OTHER -> <<"?">>

UnknownDocument ==
    <<"U", "n", "k", "n", "o", "w", "n", " ", "D", "o", "c", "u", "m", "e", "n", "t">>

\* a metadata record with no property set ({})
EmptyMeta ==
    Obj([page_range |-> Undef, chunk_bboxes |-> Undef,
         document |-> Undef, sourceDocument |-> Undef])

\* the value itself when it is not a string, else what JSON.parse makes of it
\* with single quotes turned into double quotes (api-client.ts 108, 119)
ParsedOrSelf(x) ==
    IF x.t = "string" THEN JSONParse(ReplaceQuotes(x.v))
    ELSE [ok |-> TRUE, val |-> x]

\* Number(parsed[0]) || 0 of a non-empty array, else 0
FirstNumber(p) ==
    IF p.ok /\ IsArray(p.val) /\ Len(p.val.v) > 0 THEN NumberOr0(p.val.v[1]) ELSE 0

\* parsePageStart without the replacement of single quotes: a faulty variant
parsePageStartAsWritten(pageRange) ==
    FirstNumber(IF pageRange.t = "string" THEN JSONParse(pageRange.v)
                ELSE [ok |-> TRUE, val |-> pageRange])

\* parsePageStart (api-client.ts 105-114); a SyntaxError of JSON.parse is
\* caught and leaves the default 0
parsePageStart(pageRange) == FirstNumber(ParsedOrSelf(pageRange))

\* the box taken whatever its arity: a faulty variant
BoxOfAnyArity(bb) ==
    IF IsArray(bb)
    THEN [k \in 1..4 |-> NumberOr0(Index(bb, k - 1))]
    ELSE <<0, 0, 0, 0>>

BoxOf(bb) ==
    IF IsArray(bb) /\ Len(bb.v) = 4
    THEN [k \in 1..4 |-> NumberOr0(bb.v[k])]
    ELSE <<0, 0, 0, 0>>

FirstBox(p) ==
    IF p.ok /\ IsArray(p.val) /\ Len(p.val.v) > 0 THEN BoxOf(p.val.v[1]) ELSE <<0, 0, 0, 0>>

\* parseFirstBBox (api-client.ts 116-129)
parseFirstBBox(bboxes) == FirstBox(ParsedOrSelf(bboxes))

Min(a, b) == IF a < b THEN a ELSE b
Max(a, b) == IF a > b THEN a ELSE b

\* the score without the clamp of the distance: a faulty variant
RelevanceScoreUnclamped(relevance, i) ==
    IF relevance.t = "number"
    THEN Fix(1) - relevance.v
    ELSE 80 - (i * 10)

\* relevanceScore of entry i (counted from 0) (api-client.ts 136-137), in
\* hundredths
RelevanceScore(relevance, i) ==
    IF relevance.t = "number"
    THEN Fix(1) - Min(Max(relevance.v, 0), Fix(1))
    ELSE 80 - (i * 10)

\* The score is an IEEE double.  0.8 - 1*0.1 and 0.8 - 2*0.1 are
\* 0.7000000000000001 and 0.6000000000000001, above the doubles 0.7 and 0.6;
\* 0.8 - 0*0.1 is 0.8, and 1 - 0.2 and 1 - 0.4 are the doubles 0.8 and 0.6.
\* ScoreAbove tells whether the double is above the double of the value
\* RelevanceScore gives, which decides a comparison with that value.
ScoreAbove(relevance, i) == relevance.t # "number" /\ i \in {1, 2}

\* score > threshold on the doubles
Exceeds(relevanceScore, above, threshold) ==
    relevanceScore > threshold \/ (relevanceScore = threshold /\ above)

\* thresholds that count the bound in: a faulty variant
ConnectionTypeInclusive(relevanceScore, above) ==
    IF relevanceScore >= 80 THEN "elaboration"
    ELSE IF relevanceScore >= 60 THEN "correlation"
    ELSE "context"

\* connectionType from the score (api-client.ts 139-143)
ConnectionType(relevanceScore, above) ==
    IF Exceeds(relevanceScore, above, 80) THEN "elaboration"
    ELSE IF Exceeds(relevanceScore, above, 60) THEN "correlation"
    ELSE "context"

\* snippet.length > 200 throws a TypeError on null and undefined
SnippetThrows(snippet) == snippet.t \in {"null", "undefined"}

\* the cut without the ellipsis marker: a faulty variant
TruncatedBare(s, n) == SubSeq(s, 1, Min(Len(s), SnippetMax))

\* s.substring(0, 200) + (n > 200 ? '...' : ''), n being snippet.length
Truncated(s, n) ==
    SubSeq(s, 1, Min(Len(s), SnippetMax))
        \o (IF n > SnippetMax THEN <<".", ".", ".">> ELSE <<>>)

\* String(snippet || '').substring(0, 200) + (snippet.length > 200 ? '...' : '')
SnippetText(snippet) ==
    Truncated(IF Truthy(snippet) THEN ToStr(snippet) ELSE <<>>,
              IF snippet.t \in {"string", "array"} THEN Len(snippet.v) ELSE 0)

\* meta?.document || meta?.sourceDocument || 'Unknown Document'
DocumentOf(doc, sourceDocument) ==
    IF Truthy(doc) THEN doc
    ELSE IF Truthy(sourceDocument) THEN sourceDocument
    ELSE Str(UnknownDocument)

\* the record the map callback returns (api-client.ts 145-153)
Entry(snippet, i, meta, rawId, relevanceScore, above) ==
    [id |-> IF Truthy(rawId) THEN rawId
            ELSE Str(<<"r", "e", "c", "-">> \o NatToStr(i)),
     sourceDocument |-> ToStr(DocumentOf(Get(meta, "document"), Get(meta, "sourceDocument"))),
     snippet |-> SnippetText(snippet),
     pageNumber |-> parsePageStart(Get(meta, "page_range")) + Fix(1),
     boundingBox |-> parseFirstBBox(Get(meta, "chunk_bboxes")),
     relevanceScore |-> relevanceScore,
     connectionType |-> ConnectionType(relevanceScore, above)]

\* column[i], i counted from 0
At(column, i) == IF i + 1 \in 1..Len(column) THEN column[i + 1] ELSE Undef

\* metadatas[i] || {}
OrEmptyMeta(m) == IF Truthy(m) THEN m ELSE EmptyMeta

\* the callback of documents.slice(0, 3).map (api-client.ts 131-154), i from 0
MapEntry(snippet, i, metadatas, ids, distances) ==
    Entry(snippet, i, OrEmptyMeta(At(metadatas, i)), At(ids, i),
          RelevanceScore(At(distances, i), i), ScoreAbove(At(distances, i), i))

\* searchResults.<field>?.[0] when it is an array, else []
ColumnOf(c) == IF IsArray(c) THEN c.v ELSE <<>>
Column(searchResults, field) == ColumnOf(Index(Get(searchResults, field), 0))

\* documents.slice(0, 3)
Slice3(documents) == SubSeq(documents, 1, Min(Len(documents), MaxRecs))

\* documents.slice(0, 3).map(...): [ok |-> FALSE] when the callback throws
MapDocuments(taken, metadatas, ids, distances) ==
    IF \E k \in 1..Len(taken) : SnippetThrows(taken[k])
    THEN [ok |-> FALSE, recommendations |-> <<>>]
    ELSE [ok |-> TRUE,
          recommendations |->
              [k \in 1..Len(taken) |->
                  MapEntry(taken[k], k - 1, metadatas, ids, distances)]]

\* raw?.search_results ?? raw
SearchResultsOf(raw, nested) ==
    IF nested.t \in {"undefined", "null"} THEN raw ELSE nested

\* the normalisation of a Chroma-style bundle (api-client.ts 99-156)
NormalizeBundle(searchResults) ==
    MapDocuments(Slice3(Column(searchResults, "documents")),
                 Column(searchResults, "metadatas"),
                 Column(searchResults, "ids"),
                 Column(searchResults, "distances"))

\* a pass-through that cuts the list to three entries: a faulty variant
PassThroughSliced(recs) == [ok |-> TRUE, recommendations |-> Slice3(recs.v)]

\* the pass-through of a body that already has recommendations
\* (api-client.ts 88-90)
PassThrough(recs) == [ok |-> TRUE, recommendations |-> recs.v]

\* The body of extractAndSearch after response.json() (api-client.ts 85-156):
\* [ok |-> TRUE, recommendations |-> list], or [ok |-> FALSE] when the
\* normalisation throws (the catch block rethrows).
extractAndSearch(raw) ==
    IF IsArray(Get(raw, "recommendations"))
    THEN PassThrough(Get(raw, "recommendations"))
    ELSE NormalizeBundle(SearchResultsOf(raw, Get(raw, "search_results")))

-----------------------------------------------------------------------------
(* The page: values *)

ErrSelection == "Failed to process selection. Try again."
ErrAnalyze == "Failed to analyze page. Please try again."
ErrSearch == "Extract and search failed"
ErrInsights == "Insights failed"

\* the message of the TypeError that document.createElement(...) throws in
\* handleFetchInsights (page.tsx 133, 159), where document is the state
\* variable the callback closed over, a DocumentFile or null: one token for
\* the message, whose wording is the engine's
ErrCreateElement == "TypeError: document.createElement"

LibraryDocs == {"a.pdf"}
LocalFiles == {"local.pdf"}

\* a response body that already carries recommendations
Shaped(recs) ==
    Obj([recommendations |-> Arr(recs), search_results |-> Undef,
         documents |-> Undef, metadatas |-> Undef, ids |-> Undef, distances |-> Undef])

\* a raw search-result bundle: parallel columns, each addressed at index 0
Bundle(docs, metas, ids, dists) ==
    Obj([recommendations |-> Undef, search_results |-> Undef,
         documents |-> Arr(<<Arr(docs)>>), metadatas |-> Arr(<<Arr(metas)>>),
         ids |-> Arr(<<Arr(ids)>>), distances |-> Arr(<<Arr(dists)>>)])

Meta(pageRange, bboxes, doc) ==
    Obj([page_range |-> pageRange, chunk_bboxes |-> bboxes,
         document |-> doc, sourceDocument |-> Undef])

RecA ==
    [id |-> Str(<<"A">>), sourceDocument |-> <<"q">>, snippet |-> <<"s">>,
     pageNumber |-> Fix(1), boundingBox |-> <<88, 552, 520, 564>>,
     relevanceScore |-> 92, connectionType |-> "elaboration"]
RecB ==
    [id |-> Str(<<"B">>), sourceDocument |-> <<"m">>, snippet |-> <<"t">>,
     pageNumber |-> Fix(3), boundingBox |-> <<88, 300, 520, 320>>,
     relevanceScore |-> 88, connectionType |-> "correlation"]

\* the response bodies the backend returns to the page in this model
PagePayloads ==
    { Shaped(<<RecA, RecB>>),
      Bundle(<<Str(<<"u">>)>>,
             <<Meta(Str(<<"[", "4", "]">>), Undef, Str(<<"n">>))>>,
             <<Str(<<"C">>)>>, <<Num(10)>>) }

\* a bundle whose first document is null: snippet.length throws
\* (api-client.ts 148)
ThrowingPayload == Bundle(<<JNull>>, <<>>, <<>>, <<>>)

\* the highlight handleJumpToPage builds (page.tsx 98); opacity in hundredths
Highlight(rec) ==
    [pageNumber |-> rec.pageNumber, type |-> "HIGHLIGHT",
     boundingBox |-> rec.boundingBox, color |-> "#FBBF24", opacity |-> 40]

GoToLocation(handle, page) ==
    [call |-> "goToLocation", on |-> handle, page |-> page, list |-> <<>>]
AddAnnotations(handle, list) ==
    [call |-> "addAnnotations", on |-> handle, page |-> 0, list |-> list]

\* One call of processSelectionWithScreenshot or handleUseSelection.  While
\* the call is in flight the record holds its text, the requests it has sent,
\* and, as history, the text of the last raw selection event, the number of
\* raw events before the timer fired and the PdfViewer instance the selection
\* or the click was made on.  When the call returns only its kind and its
\* outcome are kept.
NoRun ==
    [kind |-> "none", pc |-> "idle", text |-> <<>>, reqs |-> <<>>,
     evText |-> <<>>, burst |-> 0, origin |-> 0, committed |-> FALSE]

Ended(kind, outcome, committed) ==
    [NoRun EXCEPT !.kind = kind, !.pc = outcome, !.committed = committed]

\* A PdfViewer instance: pc is "preview" until previewFile resolves, "apis"
\* until getAPIs resolves, "ready" while it is mounted with its handle, "left"
\* when it was unmounted with its handle, "dead" when it was unmounted before;
\* hl is what its surface shows; seen is the viewerApis of the page's last
\* render with the instance, whose handleTextSelect onTextSelectRef keeps.
NoInst == [pc |-> "none", hl |-> {}, seen |-> 0]

\* no selection-ended event is under way
NoSel == [pc |-> "idle", via |-> "none", on |-> 0, last |-> "none"]
NoInsightsRun == [pc |-> "idle", reqs |-> <<>>]

RunIds == 1..MaxRuns
InstIds == 1..MaxLoads
InFlight == {"prep", "shot", "search"}

\* BulkPdfUpload as mounted: no file chosen.  files and others count the
\* entries of uploadProgress whose file is a PDF and those whose file is not;
\* own is 1 while the mounted component awaits uploadPDFs; orphans counts the
\* uploadPDFs calls in flight whose component has been unmounted; started and
\* completed count the calls of startUpload that reached the request and the
\* calls of onUploadComplete.  rejected is history: the last call of
\* handleFiles on the mounted component returned after its alert.
NoUpload ==
    [status |-> "none", files |-> 0, others |-> 0, isUploading |-> FALSE,
     own |-> 0, orphans |-> 0, started |-> 0, completed |-> 0,
     rejected |-> FALSE]

\* the component leaves the page: its state is gone, its request stays in
\* flight
UploadUnmounted(u) ==
    [u EXCEPT !.status = "none", !.files = 0, !.others = 0,
              !.isUploading = FALSE, !.own = 0, !.orphans = @ + u.own,
              !.rejected = FALSE]

\* a response as fetch delivers it; net is "fail" when fetch rejects
Response(net, ok, statusText, body) ==
    [net |-> net, ok |-> ok, statusText |-> statusText, body |-> body]

Failure(message) == [ok |-> FALSE, value |-> Undef, message |-> message]
Success(value) == [ok |-> TRUE, value |-> value, message |-> <<>>]

\* no ApiClient call has been made
NoGate ==
    [pc |-> "idle", op |-> "none", requests |-> 0,
     response |-> Response("none", FALSE, <<>>, Undef), result |-> Failure(<<>>)]

\* <div id="adobe-pdf-viewer"> is in the DOM while a PdfViewer is mounted
ViewerElementPresent == mounted # 0

-----------------------------------------------------------------------------
(* The page: initial state *)

InitPage ==
    /\ document = Null
    /\ viewerApis = 0
    /\ recommendations = <<>>
    /\ isLoading = FALSE
    /\ error = Null
    /\ annotations = <<>>
    /\ insights = Null
    /\ isInsightsLoading = FALSE
    /\ currentView = "upload"
    /\ selectedDocument = Null
    /\ selectionTimerRef = 0
    /\ timers = {}
    /\ nextTimer = 1
    /\ runs = [r \in RunIds |-> NoRun]
    /\ nRuns = 0
    /\ insightsRun = NoInsightsRun
    /\ mounted = 0
    /\ inst = [i \in InstIds |-> NoInst]
    /\ nInst = 0
    /\ lastEventText = <<>>
    /\ burstLen = 0
    /\ calls = <<>>
    /\ enterDirty = 0
    /\ dropped = {}
    /\ upload = NoUpload
    /\ gate = NoGate
    /\ sel = NoSel

\* nothing has been normalised yet
NormPending == [done |-> FALSE, ok |-> FALSE, recommendations |-> <<>>]

InitNormIdle ==
    /\ payload = JNull
    /\ normOut = NormPending

Init == InitPage /\ InitNormIdle

-----------------------------------------------------------------------------
(* PdfViewer: mounting, the handshake with the surface, the draw effect    *)

\* Effect to draw annotations (DocumentLibrary.tsx 448-454), run after a
\* render in which annotations or the instance's handle changed: the calls it
\* makes, given the mounted instance m and the instances after the step.
DrawCalls(m, instances, anns) ==
    IF m # 0 /\ instances[m].pc = "ready" /\ Len(anns) > 0
    THEN <<AddAnnotations(m, anns)>>
    ELSE <<>>

\* the instances after the surface has served the given calls: addAnnotations
\* adds to what the surface shows; the code never asks it to remove anything
Served(instances, made) ==
    [i \in InstIds |->
        [instances[i] EXCEPT !.hl =
            @ \cup UNION { {c.list[k] : k \in 1..Len(c.list)} :
                           c \in {made[j] : j \in {n \in 1..Len(made) :
                                     made[n].call = "addAnnotations" /\ made[n].on = i}} }]]

\* a PdfViewer is mounted for a newly entered document (main effect,
\* DocumentLibrary.tsx 269-446): previewFile is called on a fresh surface
MountViewer ==
    /\ nInst < MaxLoads
    /\ nInst' = nInst + 1
    /\ mounted' = nInst + 1
    /\ inst' = [inst EXCEPT ![nInst + 1] = [pc |-> "preview", hl |-> {}, seen |-> 0]]

\* the PdfViewer leaves the page: the cleanup of the main effect sets
\* isMounted to false (DocumentLibrary.tsx 445) and the surface goes with
\* the component's DOM; promises of the instance that are pending stay pending
UnmountViewer ==
    /\ mounted' = 0
    /\ inst' = IF mounted = 0 THEN inst
               ELSE [inst EXCEPT ![mounted] =
                        [pc |-> IF @.pc = "ready" THEN "left" ELSE @.pc, hl |-> {},
                         seen |-> viewerApis]]
    /\ UNCHANGED nInst

\* previewFile resolves (DocumentLibrary.tsx 391-394): getAPIs is called
\* unless the instance was unmounted meanwhile
PreviewDone(i) ==
    /\ inst[i].pc = "preview"
    /\ inst' = [inst EXCEPT ![i].pc = IF mounted = i THEN "apis" ELSE "dead"]
    /\ calls' = <<>>
    /\ UNCHANGED <<pageVars, asyncVars, mounted, nInst, otherVars,
                   lastEventText, burstLen, enterDirty, dropped>>

\* (A rejection of previewFile or getAPIs is only logged,
\* DocumentLibrary.tsx 435-439: the instance then stays without a handle,
\* as it does while the promise is pending.)

\* getAPIs resolves (DocumentLibrary.tsx 394-397): the instance stores the
\* handle and calls onViewerReady, i.e. handleViewerReady (page.tsx 52-54);
\* isMounted is not looked at again.  The draw effect then runs on the mounted
\* instance.
handleViewerReady(i) ==
    /\ inst[i].pc = "apis"
    /\ viewerApis' = i
    /\ LET ready == [inst EXCEPT ![i].pc = IF mounted = i THEN "ready" ELSE "dead"]
           made == DrawCalls(mounted, ready, annotations)
       IN  /\ inst' = Served(ready, IF mounted = i THEN made ELSE <<>>)
           /\ calls' = IF mounted = i THEN made ELSE <<>>
    /\ UNCHANGED <<document, recommendations, isLoading, error, annotations,
                   insights, isInsightsLoading, currentView, selectedDocument,
                   selectionTimerRef, asyncVars, mounted, nInst, otherVars,
                   lastEventText, burstLen, enterDirty, dropped>>

-----------------------------------------------------------------------------
(* View State Controller *)

\* how many of the five pieces of per-document transient state are set
Dirty ==
    Cardinality({f \in {"recommendations", "annotations", "insights", "error", "viewerApis"} :
        \/ f = "recommendations" /\ recommendations # <<>>
        \/ f = "annotations" /\ annotations # <<>>
        \/ f = "insights" /\ insights # Null
        \/ f = "error" /\ error # Null
        \/ f = "viewerApis" /\ viewerApis # 0})

\* the resets without setError(null): a faulty variant
ResetTransientKeepError ==
    /\ viewerApis' = 0
    /\ recommendations' = <<>>
    /\ annotations' = <<>>
    /\ insights' = Null
    /\ error' = error

\* the resets both handlers that enter the viewer make (page.tsx 239-243,
\* 261-265)
ResetTransient ==
    /\ viewerApis' = 0
    /\ recommendations' = <<>>
    /\ annotations' = <<>>
    /\ insights' = Null
    /\ error' = Null

\* handleDocumentSelect (page.tsx 230-244), from the DocumentLibrary list
handleDocumentSelect(doc) ==
    /\ currentView = "library"
    /\ selectedDocument' = doc
    /\ document' = doc
    /\ currentView' = "viewer"
    /\ ResetTransient
    /\ MountViewer
    /\ calls' = <<>>
    /\ enterDirty' = Dirty
    /\ dropped' = {}
    /\ UNCHANGED <<isLoading, isInsightsLoading, selectionTimerRef, asyncVars,
                   otherVars, lastEventText, burstLen>>

\* handleOpenSinglePdf (page.tsx 258-266), from SinglePdfOpen in the upload view
handleOpenSinglePdf(file) ==
    /\ currentView = "upload"
    /\ document' = file
    /\ currentView' = "viewer"
    /\ ResetTransient
    /\ MountViewer
    /\ calls' = <<>>
    /\ enterDirty' = Dirty
    /\ dropped' = {}
    /\ upload' = UploadUnmounted(upload)
    /\ UNCHANGED <<isLoading, isInsightsLoading, selectedDocument, selectionTimerRef,
                   asyncVars, quietVars, lastEventText, burstLen>>

\* handleBackToLibrary without setCurrentView('library'): a faulty variant.
\* The viewer branch then renders its placeholder in place of the PdfViewer.
handleBackToLibraryStaying ==
    /\ currentView = "viewer"
    /\ document' = Null
    /\ selectedDocument' = Null
    /\ UnmountViewer
    /\ calls' = <<>>
    /\ UNCHANGED <<currentView, viewerApis, recommendations, isLoading, error,
                   annotations, insights, isInsightsLoading, selectionTimerRef,
                   asyncVars, otherVars, lastEventText, burstLen, enterDirty,
                   dropped>>

\* handleBackToLibrary (page.tsx 246-250), the button shown in the viewer
handleBackToLibrary ==
    /\ currentView = "viewer"
    /\ currentView' = "library"
    /\ document' = Null
    /\ selectedDocument' = Null
    /\ UnmountViewer
    /\ calls' = <<>>
    /\ UNCHANGED <<viewerApis, recommendations, isLoading, error, annotations,
                   insights, isInsightsLoading, selectionTimerRef, asyncVars,
                   otherVars, lastEventText, burstLen, enterDirty, dropped>>

\* handleBackToUpload without setSelectedDocument(null): a faulty variant
handleBackToUploadKeepingSelection ==
    /\ currentView' = "upload"
    /\ document' = Null
    /\ UnmountViewer
    /\ calls' = <<>>
    /\ UNCHANGED <<viewerApis, recommendations, isLoading, error, annotations,
                   insights, isInsightsLoading, selectedDocument,
                   selectionTimerRef, asyncVars, otherVars, lastEventText,
                   burstLen, enterDirty, dropped>>

\* handleBackToUpload (page.tsx 252-256), the header's Upload button
handleBackToUpload ==
    /\ currentView' = "upload"
    /\ document' = Null
    /\ selectedDocument' = Null
    /\ UnmountViewer
    /\ calls' = <<>>
    /\ UNCHANGED <<viewerApis, recommendations, isLoading, error, annotations,
                   insights, isInsightsLoading, selectionTimerRef, asyncVars,
                   otherVars, lastEventText, burstLen, enterDirty, dropped>>

\* the header's Library button (page.tsx 296-305): setCurrentView('library')
NavLibrary ==
    /\ currentView' = "library"
    /\ UnmountViewer
    /\ calls' = <<>>
    /\ upload' = UploadUnmounted(upload)
    /\ UNCHANGED <<document, viewerApis, recommendations, isLoading, error,
                   annotations, insights, isInsightsLoading, selectedDocument,
                   selectionTimerRef, asyncVars, quietVars, lastEventText,
                   burstLen, enterDirty, dropped>>

-----------------------------------------------------------------------------
(* Selection Debouncer / Pipeline Orchestrator *)

\* handleTextSelect without the clearTimeout of page.tsx 87-89: a faulty
\* variant, which the debounce property must tell from the code
handleTextSelectNoClear(selectedText) ==
    /\ mounted # 0
    /\ nextTimer <= MaxTimers
    /\ annotations' = <<>>
    /\ timers' = timers \cup {[id |-> nextTimer, text |-> selectedText, apis |-> viewerApis,
                              origin |-> mounted]}
    /\ selectionTimerRef' = nextTimer
    /\ nextTimer' = nextTimer + 1
    /\ lastEventText' = selectedText
    /\ burstLen' = burstLen + 1
    /\ calls' = <<>>
    /\ UNCHANGED <<document, viewerApis, recommendations, isLoading, error,
                   insights, isInsightsLoading, currentView, selectedDocument,
                   runs, nRuns, insightsRun, surfaceVars, otherVars, enterDirty,
                   dropped>>

\* The body of handleTextSelect (page.tsx 83-93).  The timer's callback closes
\* over the processSelectionWithScreenshot of the render the handler is from,
\* hence over that render's viewerApis.
TextSelected(selectedText, apis, origin) ==
    /\ nextTimer <= MaxTimers
    /\ annotations' = <<>>
    /\ timers' = {tm \in timers : selectionTimerRef = 0 \/ tm.id # selectionTimerRef}
                    \cup {[id |-> nextTimer, text |-> selectedText, apis |-> apis,
                           origin |-> origin]}
    /\ selectionTimerRef' = nextTimer
    /\ nextTimer' = nextTimer + 1
    /\ lastEventText' = selectedText
    /\ burstLen' = burstLen + 1
    /\ calls' = DrawCalls(mounted, inst, <<>>)
    /\ UNCHANGED <<document, viewerApis, recommendations, isLoading, error,
                   insights, isInsightsLoading, currentView, selectedDocument,
                   runs, nRuns, insightsRun, surfaceVars, enterDirty, dropped>>

\* handleTextSelect (page.tsx 83-93) as onTextSelect of the mounted PdfViewer,
\* called with any text
handleTextSelect(selectedText) ==
    /\ mounted # 0
    /\ TextSelected(selectedText, viewerApis, mounted)
    /\ UNCHANGED otherVars

\* processSelectionWithScreenshot (page.tsx 60-81) up to its first await,
\* called with the text and the viewerApis its closure holds; origin is the
\* PdfViewer instance the selection was made on
processSelectionWithScreenshot(text, apis, origin) ==
    IF apis = 0 \/ IsBlank(text)
    THEN UNCHANGED <<isLoading, error, insights, runs, nRuns>>
    ELSE /\ nRuns < MaxRuns
         /\ nRuns' = nRuns + 1
         /\ insights' = Null
         /\ IF ViewerElementPresent
            THEN /\ isLoading' = TRUE
                 /\ error' = Null
                 /\ runs' = [runs EXCEPT ![nRuns + 1] =
                               [NoRun EXCEPT !.kind = "select", !.pc = "shot",
                                             !.text = text, !.origin = origin,
                                             !.evText = lastEventText,
                                             !.burst = burstLen]]
            ELSE \* 'PDF viewer element not found' is thrown and caught
                 /\ isLoading' = FALSE
                 /\ error' = ErrSelection
                 /\ runs' = [runs EXCEPT ![nRuns + 1] = Ended("select", "failed", FALSE)]

\* the debounce timer fires (page.tsx 90-92)
TimerFire(tm) ==
    /\ tm \in timers
    /\ timers' = timers \ {tm}
    /\ burstLen' = 0
    /\ calls' = <<>>
    /\ processSelectionWithScreenshot(tm.text, tm.apis, tm.origin)
    /\ UNCHANGED <<document, viewerApis, recommendations, annotations,
                   isInsightsLoading, currentView, selectedDocument,
                   selectionTimerRef, nextTimer, insightsRun, surfaceVars,
                   otherVars, lastEventText, enterDirty, dropped>>

\* captureTextSelectionScreenshot resolves (page.tsx 72-73): the request of
\* apiClient.extractAndSearch(screenshot, text.trim()) is sent
ShotDone(r) ==
    /\ runs[r].kind = "select" /\ runs[r].pc = "shot"
    /\ runs' = [runs EXCEPT ![r].pc = "search",
                            ![r].reqs = Append(@, Trim(runs[r].text))]
    /\ calls' = <<>>
    /\ UNCHANGED <<pageVars, timers, nextTimer, nRuns, insightsRun, surfaceVars,
                   otherVars, lastEventText, burstLen, enterDirty, dropped>>

\* the generation issued last: the code keeps no counter; runs are numbered
\* in the order they start
LatestGen == nRuns

\* a catch block that logs and does not call setError: a faulty variant
CatchRunSilent(r, message) ==
    /\ isLoading' = FALSE
    /\ runs' = [runs EXCEPT ![r] = Ended(@.kind, "failed", FALSE)]
    /\ calls' = <<>>
    /\ UNCHANGED <<document, viewerApis, recommendations, error, annotations,
                   insights, isInsightsLoading, currentView, selectedDocument,
                   selectionTimerRef, timers, nextTimer, nRuns, insightsRun,
                   surfaceVars, otherVars, lastEventText, burstLen, enterDirty,
                   dropped>>

\* the catch and finally blocks of a run (page.tsx 75-80, 216-221)
CatchRun(r, message) ==
    /\ error' = message
    /\ isLoading' = FALSE
    /\ runs' = [runs EXCEPT ![r] = Ended(@.kind, "failed", FALSE)]
    /\ calls' = <<>>
    /\ UNCHANGED <<document, viewerApis, recommendations, annotations, insights,
                   isInsightsLoading, currentView, selectedDocument,
                   selectionTimerRef, timers, nextTimer, nRuns, insightsRun,
                   surfaceVars, otherVars, lastEventText, burstLen, enterDirty,
                   dropped>>

\* captureViewportScreenshot rejects with 'Failed to capture screenshot'
\* (screenshot.ts 33-36)
ShotFail(r) ==
    /\ runs[r].kind = "select" /\ runs[r].pc = "shot"
    /\ CatchRun(r, ErrSelection)

\* captureWithHtml2Canvas is taken (window.html2canvas is set, part_005 28)
\* and canvas.toBlob calls back with null (part_005 57-70): resolve is not
\* called and there is no reject, so the promise the run awaits at page.tsx 72
\* never settles and neither its catch nor its finally block is reached
ShotNoBlob(r) ==
    /\ runs[r].kind = "select" /\ runs[r].pc = "shot"
    /\ runs' = [runs EXCEPT ![r].pc = "hung"]
    /\ calls' = <<>>
    /\ UNCHANGED <<pageVars, timers, nextTimer, nRuns, insightsRun, surfaceVars,
                   otherVars, lastEventText, burstLen, enterDirty, dropped>>

RunError(r) == IF runs[r].kind = "select" THEN ErrSelection ELSE ErrAnalyze

\* a commit that adds the result to the list it finds: a faulty variant
CommitRunMerging(r, result) ==
    /\ recommendations' = recommendations \o result.recommendations
    /\ isLoading' = FALSE
    /\ runs' = [runs EXCEPT ![r] = Ended(@.kind, "done", TRUE)]
    /\ calls' = <<>>
    /\ UNCHANGED <<document, viewerApis, error, annotations, insights,
                   isInsightsLoading, currentView, selectedDocument,
                   selectionTimerRef, timers, nextTimer, nRuns, insightsRun,
                   surfaceVars, otherVars, lastEventText, burstLen, enterDirty,
                   dropped>>

\* the try block's last statement and the finally block (page.tsx 74, 78-80;
\* 214, 219-221): setRecommendations(result.recommendations || [])
CommitRun(r, result) ==
    /\ recommendations' = result.recommendations
    /\ isLoading' = FALSE
    /\ runs' = [runs EXCEPT ![r] = Ended(@.kind, "done", TRUE)]
    /\ calls' = <<>>
    /\ UNCHANGED <<document, viewerApis, error, annotations, insights,
                   isInsightsLoading, currentView, selectedDocument,
                   selectionTimerRef, timers, nextTimer, nRuns, insightsRun,
                   surfaceVars, otherVars, lastEventText, burstLen, enterDirty,
                   dropped>>

\* the run goes on behind await apiClient.extractAndSearch(...), or to its
\* catch block when the call threw
Settle(r, result) ==
    IF result.ok THEN CommitRun(r, result) ELSE CatchRun(r, RunError(r))

\* the response of extractAndSearch arrives with body raw (page.tsx 73-74,
\* 210-214)
SearchDone(r, raw) ==
    /\ runs[r].kind \in {"select", "analyze"} /\ runs[r].pc = "search"
    /\ Settle(r, extractAndSearch(raw))

\* extractAndSearch rejects: fetch fails, the status is not ok, or the body
\* is not JSON (api-client.ts 75-85, 157-160)
SearchFail(r) ==
    /\ runs[r].kind \in {"select", "analyze"} /\ runs[r].pc = "search"
    /\ CatchRun(r, RunError(r))

\* handleUseSelection (page.tsx 166-222) up to its first await; the Analyze
\* Page button is shown in the viewer and disabled without a handle or while
\* loading (page.tsx 317-326)
handleUseSelection ==
    /\ currentView = "viewer" /\ document # Null
    /\ viewerApis # 0 /\ ~isLoading
    /\ nRuns < MaxRuns
    /\ nRuns' = nRuns + 1
    /\ isLoading' = TRUE
    /\ error' = Null
    /\ insights' = Null
    /\ runs' = [runs EXCEPT ![nRuns + 1] =
                  [NoRun EXCEPT !.kind = "analyze", !.pc = "prep", !.origin = mounted]]
    /\ calls' = <<>>
    /\ UNCHANGED <<document, viewerApis, recommendations, annotations,
                   isInsightsLoading, currentView, selectedDocument,
                   selectionTimerRef, timers, nextTimer, insightsRun,
                   surfaceVars, otherVars, lastEventText, burstLen, enterDirty,
                   dropped>>

\* getSelectedContent has settled, whichever way (page.tsx 176-189).  The
\* next statement is document.createElement('canvas') (page.tsx 192), and
\* inside DocumentViewPage the name document is the state variable of
\* page.tsx 37, a DocumentFile or null, not window.document: the call throws
\* a TypeError, which the catch block turns into the error string.  The
\* request of page.tsx 210 is never sent.
AnalyzePrepDone(r) ==
    /\ runs[r].kind = "analyze" /\ runs[r].pc = "prep"
    /\ CatchRun(r, ErrAnalyze)

-----------------------------------------------------------------------------
(* PdfViewer: the selection listeners (DocumentLibrary.tsx 344-377, 409-420) *)

\* One selection-ended event of instance on: via the EVENT_LISTENER callback
\* ("event") or the mouseup listener ("mouseup"); pc is "timer" until the
\* setTimeout fires and "content" while getSelectedContent is pending.  last
\* is history: how the previous event ended.
SelEnded(outcome) == [NoSel EXCEPT !.last = outcome]

\* what selection?.text is when getSelectedContent resolves
SelectedContents ==
    { Undef, Str(<<>>), Str(<<" ">>), Str(<<"a">>), Str(<<" ", "b">>), Num(Fix(5)) }

\* SELECTION_END or PREVIEW_SELECTION_END reaches the callback registered
\* before previewFile (344-351): with isMounted a timer of 100 ms is set
SelectionEnd(i) ==
    /\ sel.pc = "idle"
    /\ mounted = i /\ inst[i].pc \in {"preview", "apis", "ready"}
    /\ sel' = [pc |-> "timer", via |-> "event", on |-> i, last |-> "none"]
    /\ calls' = <<>>
    /\ UNCHANGED <<pageVars, asyncVars, surfaceVars, normVars, gate, upload,
                   lastEventText, burstLen, enterDirty, dropped>>

\* mouseup on the viewer's element, which has the listener once the handle is
\* there (403-423): a timer of 200 ms is set
MouseUp(i) ==
    /\ sel.pc = "idle"
    /\ mounted = i /\ inst[i].pc = "ready"
    /\ sel' = [pc |-> "timer", via |-> "mouseup", on |-> i, last |-> "none"]
    /\ calls' = <<>>
    /\ UNCHANGED <<pageVars, asyncVars, surfaceVars, normVars, gate, upload,
                   lastEventText, burstLen, enterDirty, dropped>>

\* viewerApisRef.current of the instance is set (266): it has rendered with
\* its handle
HasHandle(i) == inst[i].pc \in {"ready", "left"}

\* the timer fires: viewerApisRef.current?.getSelectedContent() (356), which
\* is nothing without the handle, or apis.getSelectedContent() (412)
SelTimer ==
    /\ sel.pc = "timer"
    /\ sel' = IF sel.via = "mouseup" \/ HasHandle(sel.on)
              THEN [sel EXCEPT !.pc = "content"]
              ELSE SelEnded("nohandle")
    /\ calls' = <<>>
    /\ UNCHANGED <<pageVars, asyncVars, surfaceVars, normVars, gate, upload,
                   lastEventText, burstLen, enterDirty, dropped>>

\* getSelectedContent rejects: the catch handler logs (366-368, 418)
GetSelectedFail ==
    /\ sel.pc = "content"
    /\ sel' = SelEnded("failed")
    /\ calls' = <<>>
    /\ UNCHANGED <<pageVars, asyncVars, surfaceVars, normVars, gate, upload,
                   lastEventText, burstLen, enterDirty, dropped>>

\* selection?.text || ''
TextOr(content) == IF Truthy(content) THEN content ELSE Str(<<>>)

\* the viewerApis of the render whose handleTextSelect onTextSelectRef.current
\* of instance i is (263-265)
HandlerApis(i) == IF mounted = i THEN viewerApis ELSE inst[i].seen

\* the listener passing on the text untrimmed: a faulty variant
GetSelectedDoneUntrimmed(content) ==
    /\ sel.pc = "content"
    /\ IF TextOr(content).t = "string" /\ TextOr(content).v # <<>>
       THEN /\ TextSelected(TextOr(content).v, HandlerApis(sel.on), sel.on)
            /\ sel' = SelEnded("passed")
       ELSE /\ sel' = SelEnded("skipped")
            /\ calls' = <<>>
            /\ UNCHANGED <<pageVars, asyncVars, surfaceVars,
                           lastEventText, burstLen, enterDirty, dropped>>
    /\ UNCHANGED <<normVars, gate, upload>>

\* getSelectedContent resolves (356-366, 412-417): onTextSelectRef.current is
\* called with the trimmed text when that is not empty; trim of a text that
\* is no string throws, which the catch handler logs
GetSelectedDone(content) ==
    /\ sel.pc = "content"
    /\ IF TextOr(content).t = "string" /\ Trim(TextOr(content).v) # <<>>
       THEN /\ TextSelected(Trim(TextOr(content).v), HandlerApis(sel.on), sel.on)
            /\ sel' = SelEnded("passed")
       ELSE /\ sel' = SelEnded(IF TextOr(content).t = "string" THEN "skipped" ELSE "failed")
            /\ calls' = <<>>
            /\ UNCHANGED <<pageVars, asyncVars, surfaceVars,
                           lastEventText, burstLen, enterDirty, dropped>>
    /\ UNCHANGED <<normVars, gate, upload>>

-----------------------------------------------------------------------------
(* Annotation Overlay Synchronizer *)

\* the Sidebar shows the recommendation cards (page.tsx 429-451,
\* Sidebar.renderContent)
CardsShown ==
    /\ currentView = "viewer"
    /\ ~isInsightsLoading /\ insights = Null
    /\ ~isLoading /\ error = Null

\* handleJumpToPage adding to the list instead of replacing it: a faulty
\* variant
handleJumpToPageAppend(rec) ==
    /\ CardsShown
    /\ \E k \in 1..Len(recommendations) : recommendations[k] = rec
    /\ IF viewerApis # 0
       THEN /\ annotations' = Append(annotations, Highlight(rec))
            /\ inst' = Served(inst, DrawCalls(mounted, inst, Append(annotations, Highlight(rec))))
            /\ calls' = <<GoToLocation(viewerApis, rec.pageNumber)>>
                            \o DrawCalls(mounted, inst, Append(annotations, Highlight(rec)))
            /\ dropped' = dropped \ {rec}
       ELSE /\ dropped' = dropped \cup {rec}
            /\ calls' = <<>>
            /\ UNCHANGED <<annotations, inst>>
    /\ UNCHANGED <<document, viewerApis, recommendations, isLoading, error,
                   insights, isInsightsLoading, currentView, selectedDocument,
                   selectionTimerRef, asyncVars, mounted, nInst, otherVars,
                   lastEventText, burstLen, enterDirty>>

\* handleJumpToPage setting the highlight without looking at the handle, so
\* that a choice made before the handle is ready is drawn once it is: a
\* faulty variant
handleJumpToPageQueued(rec) ==
    /\ CardsShown
    /\ \E k \in 1..Len(recommendations) : recommendations[k] = rec
    /\ annotations' = <<Highlight(rec)>>
    /\ IF viewerApis # 0
       THEN /\ inst' = Served(inst, DrawCalls(mounted, inst, <<Highlight(rec)>>))
            /\ calls' = <<GoToLocation(viewerApis, rec.pageNumber)>>
                            \o DrawCalls(mounted, inst, <<Highlight(rec)>>)
            /\ dropped' = dropped \ {rec}
       ELSE /\ dropped' = dropped \cup {rec}
            /\ calls' = <<>>
            /\ UNCHANGED inst
    /\ UNCHANGED <<document, viewerApis, recommendations, isLoading, error,
                   insights, isInsightsLoading, currentView, selectedDocument,
                   selectionTimerRef, asyncVars, mounted, nInst, otherVars,
                   lastEventText, burstLen, enterDirty>>

\* handleJumpToPage setting the highlight and leaving the page where it is:
\* a faulty variant
handleJumpToPageNoGoTo(rec) ==
    /\ CardsShown
    /\ \E k \in 1..Len(recommendations) : recommendations[k] = rec
    /\ IF viewerApis # 0
       THEN /\ annotations' = <<Highlight(rec)>>
            /\ inst' = Served(inst, DrawCalls(mounted, inst, <<Highlight(rec)>>))
            /\ calls' = DrawCalls(mounted, inst, <<Highlight(rec)>>)
            /\ dropped' = dropped \ {rec}
       ELSE /\ dropped' = dropped \cup {rec}
            /\ calls' = <<>>
            /\ UNCHANGED <<annotations, inst>>
    /\ UNCHANGED <<document, viewerApis, recommendations, isLoading, error,
                   insights, isInsightsLoading, currentView, selectedDocument,
                   selectionTimerRef, asyncVars, mounted, nInst, otherVars,
                   lastEventText, burstLen, enterDirty>>

\* handleJumpToPage (page.tsx 95-101), a click on the card of rec, followed
\* by PdfViewer's draw effect for the new annotations
handleJumpToPage(rec) ==
    /\ CardsShown
    /\ \E k \in 1..Len(recommendations) : recommendations[k] = rec
    /\ IF viewerApis # 0
       THEN LET newAnnotation == Highlight(rec)
                made == <<GoToLocation(viewerApis, rec.pageNumber)>>
                            \o DrawCalls(mounted, inst, <<newAnnotation>>)
            IN  /\ annotations' = <<newAnnotation>>
                /\ inst' = Served(inst, made)
                /\ calls' = made
                /\ dropped' = dropped \ {rec}
       ELSE /\ dropped' = dropped \cup {rec}
            /\ calls' = <<>>
            /\ UNCHANGED <<annotations, inst>>
    /\ UNCHANGED <<document, viewerApis, recommendations, isLoading, error,
                   insights, isInsightsLoading, currentView, selectedDocument,
                   selectionTimerRef, asyncVars, mounted, nInst, otherVars,
                   lastEventText, burstLen, enterDirty>>

-----------------------------------------------------------------------------
(* Insights (handleFetchInsights, page.tsx 103-164) *)

\* The click on InsightsButton, shown in the viewer and disabled while
\* isInsightsLoading (page.tsx 357-366), up to the first await.  With
\* insights set the call clears them and returns.  Otherwise, with a handle,
\* the call waits for getSelectedContent (page.tsx 117-119).  Without a handle
\* nothing is awaited before document.createElement('canvas') (page.tsx 133),
\* where document is the state variable of page.tsx 37: the TypeError, the
\* catch block and the finally block all belong to the click's own step.
handleFetchInsights ==
    /\ currentView = "viewer" /\ document # Null
    /\ ~isInsightsLoading
    /\ IF insights # Null
       THEN /\ insights' = Null
            /\ UNCHANGED <<isInsightsLoading, recommendations, error, insightsRun>>
       ELSE /\ recommendations' = <<>>
            /\ IF viewerApis # 0
               THEN /\ isInsightsLoading' = TRUE
                    /\ error' = Null
                    /\ insightsRun' = [pc |-> "selection", reqs |-> <<>>]
               ELSE /\ isInsightsLoading' = FALSE
                    /\ error' = ErrCreateElement
                    /\ UNCHANGED insightsRun
            /\ UNCHANGED insights
    /\ calls' = <<>>
    /\ UNCHANGED <<document, viewerApis, isLoading, annotations, currentView,
                   selectedDocument, selectionTimerRef, timers, nextTimer, runs,
                   nRuns, surfaceVars, otherVars, lastEventText, burstLen,
                   enterDirty, dropped>>

\* the catch and finally blocks of handleFetchInsights (page.tsx 157-163)
CatchInsights(message) ==
    /\ error' = message
    /\ isInsightsLoading' = FALSE
    /\ insightsRun' = NoInsightsRun
    /\ calls' = <<>>
    /\ UNCHANGED <<document, viewerApis, recommendations, isLoading, annotations,
                   insights, currentView, selectedDocument, selectionTimerRef,
                   timers, nextTimer, runs, nRuns, surfaceVars, otherVars,
                   lastEventText, burstLen, enterDirty, dropped>>

\* getSelectedContent has settled, whichever way (page.tsx 117-130): the
\* call goes on to document.createElement('canvas') (page.tsx 133), which
\* throws.  Neither extractAndSearch (page.tsx 151) nor getInsights
\* (page.tsx 155) is called, and setInsights(data) (page.tsx 156) is not
\* reached.
InsightsPrepDone ==
    /\ insightsRun.pc = "selection"
    /\ CatchInsights(ErrCreateElement)

-----------------------------------------------------------------------------
(* BulkPdfUpload (part_003) and handleUploadComplete (page.tsx 225-228) *)

\* what the user drops or picks: so many PDF files and so many other files;
\* handleDrop and handleChange pass on no empty selection (part_003 114, 121)
FileSelections ==
    { [pdfs |-> 0, others |-> 1], [pdfs |-> 1, others |-> 1],
      [pdfs |-> MaxFiles, others |-> 1], [pdfs |-> MaxFiles + 1, others |-> 0] }

\* handleFiles without the filter on file.type: a faulty variant
handleFilesUnfiltered(files) ==
    /\ currentView = "upload"
    /\ IF files.pdfs + files.others = 0 \/ files.pdfs + files.others > MaxFiles
       THEN upload' = [upload EXCEPT !.rejected = TRUE]
       ELSE upload' = [upload EXCEPT !.status = "pending", !.files = files.pdfs,
                                     !.others = files.others, !.rejected = FALSE]
    /\ calls' = <<>>
    /\ UNCHANGED <<pageVars, asyncVars, surfaceVars, quietVars,
                   lastEventText, burstLen, enterDirty, dropped>>

\* handleFiles (part_003 26-46): the PDFs of the selection replace the list,
\* all pending, unless there is none or there are more than maxFiles
handleFiles(files) ==
    /\ currentView = "upload"
    /\ IF files.pdfs = 0 \/ files.pdfs > MaxFiles
       THEN upload' = [upload EXCEPT !.rejected = TRUE]
       ELSE upload' = [upload EXCEPT !.status = "pending", !.files = files.pdfs,
                                     !.others = 0, !.rejected = FALSE]
    /\ calls' = <<>>
    /\ UNCHANGED <<pageVars, asyncVars, surfaceVars, quietVars,
                   lastEventText, burstLen, enterDirty, dropped>>

\* clearFiles (part_003 130-135); the Clear button is shown with a non-empty
\* list and disabled while uploading (219-225)
clearFiles ==
    /\ currentView = "upload"
    /\ upload.files > 0 /\ ~upload.isUploading
    /\ upload' = [upload EXCEPT !.status = "none", !.files = 0, !.others = 0]
    /\ calls' = <<>>
    /\ UNCHANGED <<pageVars, asyncVars, surfaceVars, quietVars,
                   lastEventText, burstLen, enterDirty, dropped>>

\* startUpload (part_003 48-60) up to await apiClient.uploadPDFs(files); the
\* Upload All button is shown while not uploading and some entry is pending
\* (211-218)
startUpload ==
    /\ currentView = "upload"
    /\ upload.files > 0 /\ upload.status = "pending" /\ ~upload.isUploading
    /\ upload.started < MaxUploads
    /\ upload' = [upload EXCEPT !.status = "uploading", !.isUploading = TRUE,
                                !.own = 1, !.started = @ + 1]
    /\ calls' = <<>>
    /\ UNCHANGED <<pageVars, asyncVars, surfaceVars, quietVars,
                   lastEventText, burstLen, enterDirty, dropped>>

\* the upload state with one request less in flight: the mounted component's
\* own, or one whose component is gone
Settled(u, mine) ==
    IF mine THEN [u EXCEPT !.own = 0] ELSE [u EXCEPT !.orphans = @ - 1]

\* handleUploadComplete (page.tsx 225-228): setCurrentView('library'); a
\* mounted PdfViewer or BulkPdfUpload leaves the page with the view
handleUploadComplete(u) ==
    /\ currentView' = "library"
    /\ UnmountViewer
    /\ upload' = [UploadUnmounted(u) EXCEPT !.completed = @ + 1]

\* uploadPDFs resolves (part_003 60-72): the entries are marked success and
\* onUploadComplete is called; setState calls of an unmounted component do
\* nothing
UploadSucceeded(mine) ==
    /\ IF mine THEN upload.own = 1 ELSE upload.orphans > 0
    /\ handleUploadComplete(Settled(upload, mine))
    /\ calls' = <<>>
    /\ UNCHANGED <<document, viewerApis, recommendations, isLoading, error,
                   annotations, insights, isInsightsLoading, selectedDocument,
                   selectionTimerRef, asyncVars, quietVars, lastEventText,
                   burstLen, enterDirty, dropped>>

\* an upload whose failure sends the user to the library as well: a faulty
\* variant
UploadFailedNavigates(mine) ==
    /\ IF mine THEN upload.own = 1 ELSE upload.orphans > 0
    /\ handleUploadComplete(Settled(upload, mine))
    /\ calls' = <<>>
    /\ UNCHANGED <<document, viewerApis, recommendations, isLoading, error,
                   annotations, insights, isInsightsLoading, selectedDocument,
                   selectionTimerRef, asyncVars, quietVars, lastEventText,
                   burstLen, enterDirty, dropped>>

\* uploadPDFs rejects, or resolves with a body without properties to read
\* (null), so that result.files throws (part_003 67, 73-96): the entries of the
\* mounted component are marked error and isUploading is cleared
UploadFailed(mine) ==
    /\ IF mine THEN upload.own = 1 ELSE upload.orphans > 0
    /\ upload' = IF mine
                 THEN [upload EXCEPT !.own = 0, !.status = "error", !.isUploading = FALSE]
                 ELSE Settled(upload, FALSE)
    /\ calls' = <<>>
    /\ UNCHANGED <<pageVars, asyncVars, surfaceVars, quietVars,
                   lastEventText, burstLen, enterDirty, dropped>>

-----------------------------------------------------------------------------
(* The page: next-state relations *)

\* what the user does with the header and the library, and what the mounted
\* PdfViewer's promises do
Navigation ==
    \/ \E d \in LibraryDocs : handleDocumentSelect(d)
    \/ \E f \in LocalFiles : handleOpenSinglePdf(f)
    \/ handleBackToLibrary
    \/ handleBackToUpload
    \/ NavLibrary
    \/ \E i \in InstIds : PreviewDone(i)
    \/ \E i \in InstIds : handleViewerReady(i)

\* the debounce timer and the selection runs
SelectionRuns ==
    \/ \E tm \in timers : TimerFire(tm)
    \/ \E r \in RunIds : ShotDone(r)
    \/ \E r \in RunIds : ShotFail(r)
    \/ \E r \in RunIds : \E raw \in PagePayloads \cup {ThrowingPayload} : SearchDone(r, raw)
    \/ \E r \in RunIds : SearchFail(r)

\* raw selection events and the runs they start
Selection ==
    \/ \E t \in Texts : handleTextSelect(t)
    \/ SelectionRuns

\* the selection listeners of PdfViewer
Adapter ==
    \/ \E i \in InstIds : SelectionEnd(i)
    \/ \E i \in InstIds : MouseUp(i)
    \/ SelTimer
    \/ GetSelectedFail
    \/ \E content \in SelectedContents : GetSelectedDone(content)

\* the Analyze Page button
Analyze ==
    \/ handleUseSelection
    \/ \E r \in RunIds : AnalyzePrepDone(r)

\* a click on a recommendation card
Jump == \E k \in 1..Len(recommendations) : handleJumpToPage(recommendations[k])

\* the Insights button
Insights ==
    \/ handleFetchInsights
    \/ InsightsPrepDone

\* the whole page
Next == Navigation \/ Selection \/ Analyze \/ Jump \/ Insights

Spec == Init /\ [][Next]_vars

\* the page with the Insights button left alone: navigation, selections,
\* Analyze Page and the recommendation cards
NextPipeline == Navigation \/ Selection \/ Analyze \/ Jump

SpecPipeline == Init /\ [][NextPipeline]_vars

\* the page with the Analyze Page button left alone: navigation, selections,
\* the recommendation cards and the Insights button
NextInsights == Navigation \/ Selection \/ Jump \/ Insights

SpecInsights == Init /\ [][NextInsights]_vars

\* the page with the raw selection events that PdfViewer's listeners make
NextAdapter == Navigation \/ Adapter \/ SelectionRuns

SpecAdapter == Init /\ [][NextAdapter]_vars

\* a local file is opened and its PdfViewer becomes ready
OpenViewer ==
    \/ \E f \in LocalFiles : handleOpenSinglePdf(f)
    \/ \E i \in InstIds : PreviewDone(i)
    \/ \E i \in InstIds : handleViewerReady(i)

\* The page of a user who opens a file and stays in the viewer, with every
\* outcome of the screenshot capture, under fair completion: a pending timer
\* fires, a capture under way ends (with a file, with a rejection or with no
\* blob), a request under way is answered, and getSelectedContent settles.
NextLive ==
    OpenViewer \/ Selection \/ Analyze \/ Insights \/ \E r \in RunIds : ShotNoBlob(r)

\* (SearchFail(r) is enabled exactly while the request of run r is
\* unanswered, and any answer disables it: its weak fairness says that the
\* request is answered, not how.)
Fairness ==
    /\ WF_vars(\E tm \in timers : TimerFire(tm))
    /\ \A r \in RunIds :
          /\ WF_vars(ShotDone(r) \/ ShotFail(r) \/ ShotNoBlob(r))
          /\ WF_vars(SearchFail(r))
          /\ WF_vars(AnalyzePrepDone(r))
    /\ WF_vars(InsightsPrepDone)

SpecLive == Init /\ [][NextLive]_vars /\ Fairness

\* the bulk upload: choosing files, Upload All and the outcome of uploadPDFs
Upload ==
    \/ \E files \in FileSelections : handleFiles(files)
    \/ clearFiles
    \/ startUpload
    \/ \E mine \in BOOLEAN : UploadSucceeded(mine)
    \/ \E mine \in BOOLEAN : UploadFailed(mine)

\* the page with its three views: navigation, the bulk upload, selections and
\* the recommendation cards
NextViews == Navigation \/ Upload \/ Selection \/ Jump

SpecViews == Init /\ [][NextViews]_vars

-----------------------------------------------------------------------------
(* The normaliser alone: response bodies of both shapes are drawn from a   *)
(* bounded family and extractAndSearch is applied to them                  *)

\* the most entries a response body of the family carries
MaxEntries == 4

RecOver == [RecA EXCEPT !.relevanceScore = 150]
RecUnder == [RecB EXCEPT !.relevanceScore = 0 - 20]

Repeat(x, n) == [k \in 1..n |-> x]

\* bodies that already carry recommendations
ShapedPayloads ==
    { Shaped(Repeat(r, n)) : r \in {RecA, RecOver, RecUnder}, n \in 0..MaxEntries }
        \cup { Shaped(<<RecA, RecB>>), Shaped(<<RecB, RecA, RecOver, RecUnder>>) }

\* distances[i]: below 0, inside [0,1], above 1, not a number, missing
DistanceValues ==
    { Num(0 - 50), Num(0), Num(30), Num(100), Num(250),
      Str(<<"0", ".", "3">>), Undef }

LongSnippet == Repeat("x", SnippetMax + 1)

SnippetValues == { Str(<<"u">>), Str(LongSnippet), Num(Fix(5)) }

\* page_range values that are missing, unparseable, not an array or empty
MalformedPageRanges ==
    { Undef, JNull, Num(Fix(5)), Arr(<<>>),
      Str(<<"o", "o", "p", "s">>), Str(<<"[", "4">>), Str(<<"5">>), Str(<<"[", "]">>),
      Str(<<"(", "1", ",", "2", ")">>) }

\* chunk_bboxes values that are missing, unparseable, not an array, empty,
\* or whose first box is not an array of four
MalformedBoxes ==
    { Undef, JNull, Num(Fix(5)), Arr(<<>>),
      Str(<<"o", "o", "p", "s">>), Str(<<"[", "[", "1", ",", "2">>), Str(<<"[", "]">>),
      Arr(<<Num(Fix(1))>>),
      Arr(<<Arr(<<Num(Fix(1)), Num(Fix(2)), Num(Fix(3))>>)>>),
      Str(<<"[", "[", "1", ",", "2", ",", "3", ",", "4", ",", "5", "]", "]">>) }

MalformedMetas ==
    { Meta(pr, Arr(<<Arr(<<Num(Fix(1)), Num(Fix(2)), Num(Fix(3)), Num(Fix(4))>>)>>), Undef) :
        pr \in MalformedPageRanges }
      \cup { Meta(Arr(<<Num(Fix(2))>>), bb, Undef) : bb \in MalformedBoxes }

MetaValues ==
    { Undef,
      Meta(Str(<<"[", "4", "]">>),
           Str(<<"[", "[", "1", ",", " ", "2", ",", "3", ",", "4", ".", "5", "]", "]">>),
           Str(<<"n">>)),
      Meta(Arr(<<Num(Fix(2))>>),
           Arr(<<Arr(<<Num(Fix(1)), Num(Fix(2)), Num(Fix(3))>>)>>), Undef),
      Meta(Str(<<"[", "'", "7", "'", ",", "9", "]">>), Str(<<"o", "o", "p", "s">>), JNull) }

\* raw search-result bundles with n parallel entries
BundlePayloads ==
    { Bundle(Repeat(sn, n), Repeat(m, n), Repeat(Str(<<"i">>), n), Repeat(d, n)) :
        sn \in SnippetValues, m \in MetaValues, d \in DistanceValues, n \in 0..MaxEntries }
      \cup { Bundle(Repeat(Str(<<"u">>), n), Repeat(m, n), <<>>, <<>>) :
                m \in MalformedMetas, n \in 1..MaxEntries }

\* bundles with a null among the documents: second of two, and fourth of four
NullSnippetPayloads ==
    { ThrowingPayload,
      Bundle(<<Str(<<"u">>), JNull>>, <<>>, <<>>, <<>>),
      Bundle(Repeat(Str(<<"u">>), MaxRecs) \o <<JNull>>, <<>>, <<>>, <<>>) }

\* page_range values that are arrays, real or string-encoded, each with the
\* number its first element stands for (in hundredths)
PageRangeCases ==
    { [range |-> Arr(<<Num(Fix(2))>>), first |-> Fix(2)],
      [range |-> Arr(<<Num(0), Num(Fix(5))>>), first |-> 0],
      [range |-> Str(<<"[", "2", "]">>), first |-> Fix(2)],
      [range |-> Str(<<"[", " ", "4", " ", ",", " ", "6", " ", "]">>), first |-> Fix(4)],
      [range |-> Str(<<"[", "'", "7", "'", ",", "9", "]">>), first |-> Fix(7)],
      [range |-> Str(<<"[", "\"", "3", "\"", "]">>), first |-> Fix(3)],
      [range |-> Arr(<<Str(<<"1", "2">>)>>), first |-> Fix(12)],
      [range |-> Arr(<<Num(0 - Fix(1))>>), first |-> 0 - Fix(1)],
      [range |-> Str(<<"[", "-", "3", ",", "1", "]">>), first |-> 0 - Fix(3)],
      [range |-> Arr(<<Num(250)>>), first |-> 250],
      [range |-> Str(<<"[", "0", ".", "5", "]">>), first |-> 50] }

RangeMeta(pageRange) == Meta(pageRange, Undef, Undef)

\* bundles of n entries with the same array-valued page_range, and one whose
\* four entries have four different ones
PageRangePayloads ==
    { Bundle(Repeat(Str(<<"u">>), n), Repeat(RangeMeta(c.range), n), <<>>, <<>>) :
        c \in PageRangeCases, n \in 1..MaxEntries }
      \cup { Bundle(Repeat(Str(<<"u">>), 4),
                    << RangeMeta(Arr(<<Num(Fix(2))>>)),
                       RangeMeta(Str(<<"[", "'", "7", "'", ",", "9", "]">>)),
                       RangeMeta(Str(<<"[", "\"", "3", "\"", "]">>)),
                       RangeMeta(Str(<<"[", "2", "]">>)) >>,
                    <<>>, <<>>) }

\* the bundle of the documented scenario: one snippet of more than 200
\* characters, page_range "[2]", distance 0.1
ScenarioPayload ==
    Bundle(<<Str(LongSnippet)>>, <<RangeMeta(Str(<<"[", "2", "]">>))>>, <<>>, <<Num(10)>>)

\* three entries whose distances are below 0, null and above 1
MixedDistances ==
    Bundle(Repeat(Str(<<"u">>), 3), <<>>, <<>>, <<Num(0 - 50), JNull, Num(250)>>)

\* four different entries: a short snippet, one of 201 characters, one of
\* exactly 200 and a fourth, each with its own id, page and distance
OrderedPayload ==
    Bundle(<< Str(<<"a">>), Str(LongSnippet), Str(Repeat("y", SnippetMax)), Str(<<"d">>) >>,
           << RangeMeta(Arr(<<Num(Fix(1))>>)), RangeMeta(Arr(<<Num(Fix(2))>>)),
              RangeMeta(Arr(<<Num(Fix(3))>>)), RangeMeta(Arr(<<Num(Fix(4))>>)) >>,
           << Str(<<"i", "1">>), Str(<<"i", "2">>), Str(<<"i", "3">>), Str(<<"i", "4">>) >>,
           << Num(10), Num(30), Num(50), Num(70) >>)

\* a body with both a recommendations array and a search_results bundle
ShapedWithBundle ==
    Obj([recommendations |-> Arr(<<RecB, RecA>>),
         search_results |-> Bundle(<<Str(<<"u">>)>>, <<>>, <<>>, <<>>),
         documents |-> Undef, metadatas |-> Undef, ids |-> Undef, distances |-> Undef])

\* the same bundle under the search_results property
Nested(bundle) ==
    Obj([recommendations |-> Undef, search_results |-> bundle,
         documents |-> Undef, metadatas |-> Undef, ids |-> Undef, distances |-> Undef])

NormPayloads ==
    ShapedPayloads \cup BundlePayloads
        \cup { Nested(b) : b \in {c \in BundlePayloads : Len(Column(c, "distances")) = 1} }
        \cup NullSnippetPayloads \cup PageRangePayloads
        \cup { ShapedWithBundle, ScenarioPayload, MixedDistances, OrderedPayload, JNull }

InitNorm ==
    /\ InitPage
    /\ payload \in NormPayloads
    /\ normOut = NormPending

NormResult(result) ==
    [done |-> TRUE, ok |-> result.ok, recommendations |-> result.recommendations]

\* response.json() has resolved with payload; the rest of extractAndSearch runs
Normalize ==
    /\ ~normOut.done
    /\ normOut' = NormResult(extractAndSearch(payload))
    /\ UNCHANGED <<payload, gate, sel, upload, pageVars, asyncVars, surfaceVars, histVars>>

NextNorm == Normalize

SpecNorm == InitNorm /\ [][NextNorm]_vars

-----------------------------------------------------------------------------
(* ApiClient: the six operations, each one fetch and what is made of the    *)
(* response (api-client.ts 44-267)                                          *)

\* a body response.json() rejects
NotJson == [t |-> "notjson", v |-> 0]

\* fetch rejects with a TypeError; the catch block logs and rethrows
TransportError == Failure(<<"TypeError: Failed to fetch">>)

\* throw new Error(`${what}: ${response.statusText}`)
HttpError(what, resp) == Failure(<<what, ": ">> \o resp.statusText)

\* await response.json(), then the given value
Json(resp, value) ==
    IF resp.body.t = "notjson" THEN Failure(<<"SyntaxError">>) ELSE Success(value)

\* try { fetch; if (!response.ok) throw ...; ... } catch (error) { throw error }
Fetched(resp, onStatus, onBody) ==
    IF resp.net = "fail" THEN TransportError
    ELSE IF ~resp.ok THEN onStatus
    ELSE onBody

\* uploadPDFs (api-client.ts 45-67)
uploadPDFs(resp) ==
    Fetched(resp, HttpError("Upload failed", resp), Json(resp, resp.body))

\* the list extractAndSearch makes of a parsed body, or its throw
Normalized(n) ==
    IF n.ok THEN Success([t |-> "recommendations", v |-> n.recommendations])
    ELSE Failure(<<"TypeError">>)

\* extractAndSearch (api-client.ts 70-161), fetch included
extractAndSearchCall(resp) ==
    Fetched(resp, HttpError(ErrSearch, resp),
            IF resp.body.t = "notjson" THEN Failure(<<"SyntaxError">>)
            ELSE Normalized(extractAndSearch(resp.body)))

\* err.detail || err.message || err.error
FirstTruthy(a, b, c) == IF Truthy(a) THEN a ELSE IF Truthy(b) THEN b ELSE c

\* (err && (err.detail || err.message || err.error)) ? that : statusText
InsightsDetail(err, statusText) ==
    IF Truthy(FirstTruthy(Get(err, "detail"), Get(err, "message"), Get(err, "error")))
    THEN ToStr(FirstTruthy(Get(err, "detail"), Get(err, "message"), Get(err, "error")))
    ELSE statusText

\* the try block of api-client.ts 172-175: response.json() rejects, or the
\* Error with the detail is thrown
InsightsTry(resp) ==
    IF resp.body.t = "notjson" THEN Failure(<<"SyntaxError">>)
    ELSE Failure(<<ErrInsights, ": ">> \o InsightsDetail(resp.body, resp.statusText))

\* the catch clause of api-client.ts 176-178: whatever the try block threw,
\* the Error with the status text is thrown in its place
InsightsCatch(thrown, resp) ==
    IF thrown.ok THEN thrown ELSE HttpError(ErrInsights, resp)

\* getInsights (api-client.ts 164-186)
getInsights(resp) ==
    Fetched(resp, InsightsCatch(InsightsTry(resp), resp), Json(resp, resp.body))

\* generatePodcast (api-client.ts 189-204)
generatePodcast(resp) ==
    Fetched(resp, HttpError("Podcast generation failed", resp), Json(resp, resp.body))

\* (x && String(x).trim()) ? String(x).trim() : ''
Trimmed(x) == IF Truthy(x) THEN Trim(ToStr(x)) ELSE <<>>

\* s.replace(w, ''): the first occurrence of w is taken out
RemoveFirst(s, w) ==
    IF \E i \in 1..Len(s) : StartsWith(s, i, w)
    THEN SubSeq(s, 1, (CHOOSE i \in 1..Len(s) :
                          /\ StartsWith(s, i, w)
                          /\ \A j \in 1..(i - 1) : ~StartsWith(s, j, w)) - 1)
         \o SubSeq(s, (CHOOSE i \in 1..Len(s) :
                          /\ StartsWith(s, i, w)
                          /\ \A j \in 1..(i - 1) : ~StartsWith(s, j, w)) + Len(w), Len(s))
    ELSE s

\* a fallback id without the default name and without the index: a faulty
\* variant
FallbackIdBare(base, index) == RemoveFirst(base, <<".", "p", "d", "f">>)

\* `${(base || 'doc').replace('.pdf', '')}-${index}`
FallbackId(base, index) ==
    RemoveFirst(IF base # <<>> THEN base ELSE <<"d", "o", "c">>, <<".", "p", "d", "f">>)
        \o <<"-">> \o NatToStr(index)

\* the DocumentInfo of one record; uploadedAt defaults to the time of the call
DocumentInfo(baseId, base, name, index, uploadedAt) ==
    [id |-> IF baseId # <<>> THEN baseId ELSE FallbackId(base, index),
     name |-> name,
     uploadedAt |-> IF Truthy(uploadedAt) THEN uploadedAt ELSE Str(<<"now">>)]

\* the map callback of the documents shape (api-client.ts 218-228)
NormalizeDocument(raw, index) ==
    DocumentInfo(Trimmed(Get(raw, "id")), Trimmed(Get(raw, "name")),
                 Trimmed(Get(raw, "name")), index, Get(raw, "uploadedAt"))

\* filename of a pdfs record, which may be the bare file name
FilenameOf(raw) == Trimmed(IF raw.t = "string" THEN raw ELSE Get(raw, "filename"))

\* a || b for strings
OrElse(a, b) == IF a # <<>> THEN a ELSE b

\* the map callback of the pdfs shape (api-client.ts 232-244)
NormalizePdf(raw, index) ==
    DocumentInfo(Trimmed(Get(raw, "id")),
                 OrElse(FilenameOf(raw), Trimmed(Get(raw, "name"))),
                 OrElse(Trimmed(Get(raw, "name")), FilenameOf(raw)),
                 index, Get(raw, "uploadedAt"))

\* the list getDocuments makes of a parsed body (api-client.ts 215-246)
DocumentsOf(result) ==
    IF IsArray(Get(result, "documents"))
    THEN [k \in 1..Len(Get(result, "documents").v) |->
             NormalizeDocument(Get(result, "documents").v[k], k - 1)]
    ELSE IF IsArray(Get(result, "pdfs"))
    THEN [k \in 1..Len(Get(result, "pdfs").v) |->
             NormalizePdf(Get(result, "pdfs").v[k], k - 1)]
    ELSE <<>>

\* getDocuments (api-client.ts 207-251)
getDocuments(resp) ==
    Fetched(resp, HttpError("Get documents failed", resp),
            Json(resp, [t |-> "documents", v |-> DocumentsOf(resp.body)]))

\* getPdf (api-client.ts 254-267): the body is returned as a blob, unread
getPdf(resp) ==
    Fetched(resp, HttpError("Get PDF failed", resp),
            Success([t |-> "blob", v |-> resp.body.t]))

GatewayOps ==
    {"uploadPDFs", "extractAndSearch", "getInsights", "generatePodcast",
     "getDocuments", "getPdf"}

GatewayResult(op, resp) ==
    CASE op = "uploadPDFs" -> uploadPDFs(resp)
      [] op = "extractAndSearch" -> extractAndSearchCall(resp)
      [] op = "getInsights" -> getInsights(resp)
      [] op = "generatePodcast" -> generatePodcast(resp)
      [] op = "getDocuments" -> getDocuments(resp)
      [] op = "getPdf" -> getPdf(resp)

-----------------------------------------------------------------------------
(* The gateway alone: each operation is called once and answered by one of  *)
(* a bounded family of responses                                            *)

\* the longest backend list of the family
MaxDocs == 2

\* a record of the backend's list
DocRecord(id, name, filename) ==
    Obj([id |-> id, name |-> name, filename |-> filename, uploadedAt |-> Undef])

PdfA == <<"a", ".", "p", "d", "f">>
PdfB == <<"b", ".", "p", "d", "f">>

\* records with an id, with a blank id, without id, without name; one whose
\* id is what the fallback makes of a.pdf at index 1; names with .pdf twice
\* and with .pdf inside; a bare file name; a null
DocRecords ==
    { DocRecord(Str(<<"x">>), Str(PdfA), Undef),
      DocRecord(Str(<<"x">>), Str(PdfB), Undef),
      DocRecord(Str(<<" ">>), Str(PdfA), Undef),
      DocRecord(Undef, Str(PdfA), Undef),
      DocRecord(Undef, Undef, Undef),
      DocRecord(Str(<<"a", "-", "1">>), Str(PdfB), Undef),
      DocRecord(Undef, Str(PdfA \o <<".", "p", "d", "f">>), Undef),
      DocRecord(Undef, Str(<<"v", ".", "p", "d", "f", "s">>), Undef),
      DocRecord(Undef, Str(<<"N">>), Str(<<"f", ".", "p", "d", "f">>)),
      Str(PdfB),
      JNull }

DocLists == UNION { [1..n -> DocRecords] : n \in 0..MaxDocs }

\* bodies of /list_pdfs: both shapes, and a body of neither
DocBodies ==
    { Obj([documents |-> Arr(l), pdfs |-> Undef]) : l \in DocLists }
      \cup { Obj([documents |-> Undef, pdfs |-> Arr(l)]) : l \in DocLists }
      \cup { Obj([documents |-> Undef, pdfs |-> Undef]), JNull }

ErrBody(detail, message, err) ==
    Obj([detail |-> detail, message |-> message, error |-> err])

\* bodies of a response whose status is not ok
ErrorBodies ==
    { NotJson, JNull,
      ErrBody(Str(<<"d">>), Str(<<"m">>), Str(<<"e">>)),
      ErrBody(Undef, Str(<<"m">>), Str(<<"e">>)),
      ErrBody(Str(<<>>), Undef, Str(<<"e">>)),
      ErrBody(Undef, Undef, Undef) }

\* bodies of a response whose status is ok
OkBodies(op) ==
    {NotJson} \cup
    CASE op = "uploadPDFs" ->
            { Obj([message |-> Str(<<"o", "k">>), files |-> Arr(<<Str(PdfA)>>)]) }
      [] op = "extractAndSearch" -> PagePayloads \cup {ThrowingPayload}
      [] op = "getInsights" -> { Obj([insight |-> Str(<<"i">>)]) }
      [] op = "generatePodcast" -> { Obj([podcast_script |-> Str(<<"s">>)]) }
      [] op = "getDocuments" -> DocBodies
      [] op = "getPdf" -> { JNull }
      [] OTHER -> {}

\* what the backend, or the network, can answer to a call of op
Responses(op) ==
    { Response("fail", FALSE, <<>>, NotJson) }
      \cup { Response("ok", FALSE, <<"B", "a", "d">>, b) : b \in ErrorBodies }
      \cup { Response("ok", TRUE, <<"O", "K">>, b) : b \in OkBodies(op) }

\* an operation is called: its one fetch is issued
GatewayFetch(op) ==
    /\ gate.pc = "idle"
    /\ gate' = [gate EXCEPT !.pc = "sent", !.op = op, !.requests = @ + 1]
    /\ UNCHANGED <<pageVars, asyncVars, surfaceVars, histVars, normVars, sel, upload>>

\* an operation whose catch block fetches once more: a faulty variant
GatewaySettleRetry(resp) ==
    /\ gate.pc = "sent"
    /\ gate' = [gate EXCEPT !.pc = "done", !.response = resp,
                            !.requests = IF GatewayResult(gate.op, resp).ok THEN @ ELSE @ + 1,
                            !.result = GatewayResult(gate.op, resp)]
    /\ UNCHANGED <<pageVars, asyncVars, surfaceVars, histVars, normVars, sel, upload>>

\* the fetch settles with resp and the operation returns or throws
GatewaySettle(resp) ==
    /\ gate.pc = "sent"
    /\ gate' = [gate EXCEPT !.pc = "done", !.response = resp,
                            !.result = GatewayResult(gate.op, resp)]
    /\ UNCHANGED <<pageVars, asyncVars, surfaceVars, histVars, normVars, sel, upload>>

NextGateway ==
    \/ \E op \in GatewayOps : GatewayFetch(op)
    \/ \E resp \in Responses(gate.op) : GatewaySettle(resp)

SpecGateway == Init /\ [][NextGateway]_vars

-----------------------------------------------------------------------------
(* Properties *)

Range(seq) == {seq[k] : k \in 1..Len(seq)}

\* the selection runs in flight
SelectRuns == {r \in RunIds : runs[r].kind = "select" /\ runs[r].pc \in InFlight}

\* C1, as the code has it: of a burst of raw selection events only the last
\* timer is pending, and it holds the text of the last event; the one call of
\* processSelectionWithScreenshot it makes has that text, sends nothing before
\* the screenshot exists and sends exactly one request once it does, carrying
\* the trimmed text of the last event.  (A call that returns early, finds no
\* viewer element or fails to capture sends none.)
C1_OneRunPerBurst ==
    /\ Cardinality(timers) <= 1
    /\ \A tm \in timers : tm.id = selectionTimerRef /\ tm.text = lastEventText
    /\ \A r \in SelectRuns :
          /\ runs[r].text = runs[r].evText
          /\ runs[r].burst >= 1
          /\ ~IsBlank(runs[r].text)
          /\ runs[r].pc = "shot" => runs[r].reqs = <<>>
          /\ runs[r].pc = "search" => runs[r].reqs = <<Trim(runs[r].evText)>>

\* a burst of two events has led to one request, which carries the trimmed
\* text of the second
C1_BurstCoalesced ==
    \E r \in SelectRuns :
        /\ runs[r].burst = 2
        /\ runs[r].evText = <<" ", "b">>
        /\ runs[r].reqs = << <<"b">> >>
        /\ timers = {}

\* C1 as stated: every selection run that ends has issued exactly one request,
\* carrying the text of the last event of its burst
C1_ExactlyOneRequest ==
    [][\A r \in RunIds :
          (runs[r].kind = "select" /\ runs[r].pc \in InFlight
             /\ runs'[r].pc \notin InFlight)
          => runs[r].reqs = <<runs[r].evText>>]_vars

\* C2: a run whose response arrives commits its result to recommendations iff
\* it is the run issued last
C2_CommitIffLatest ==
    [][\A r \in RunIds :
          (runs[r].pc = "search" /\ runs'[r].pc = "done")
          => (runs'[r].committed <=> r = LatestGen)]_vars

C4_BoundedOutput ==
    (normOut.done /\ normOut.ok) =>
        /\ Len(normOut.recommendations) <= MaxRecs
        /\ \A k \in 1..Len(normOut.recommendations) :
              /\ normOut.recommendations[k].relevanceScore >= 0
              /\ normOut.recommendations[k].relevanceScore <= Fix(1)

\* C5: the document is non-null only in the viewer
C5_DocumentOnlyInViewer == document # Null => currentView = "viewer"

\* C6: every step that enters the viewer leaves recommendations and
\* annotations empty and insights, error and the handle null
C6_EnterViewerResets ==
    [][(currentView # "viewer" /\ currentView' = "viewer")
          => /\ recommendations' = <<>>
             /\ annotations' = <<>>
             /\ insights' = Null
             /\ error' = Null
             /\ viewerApis' = 0]_vars

\* the viewer has just been entered while four of the five were set
C6_EnteredDirty ==
    /\ currentView = "viewer" /\ enterDirty >= 4
    /\ mounted # 0 /\ inst[mounted].pc = "preview"
    /\ recommendations = <<>> /\ annotations = <<>>
    /\ insights = Null /\ error = Null /\ viewerApis = 0

\* C7: the annotation list never holds more than one highlight, and a step
\* that chooses a recommendation (it calls goToLocation with its page) leaves
\* exactly that recommendation's highlight in it
C7_SingleHighlight ==
    /\ Len(annotations) <= 1
    /\ (calls # <<>> /\ calls[1].call = "goToLocation") =>
          \E rec \in Range(recommendations) :
              /\ rec.pageNumber = calls[1].page
              /\ annotations = <<[pageNumber |-> rec.pageNumber, type |-> "HIGHLIGHT",
                                  boundingBox |-> rec.boundingBox,
                                  color |-> "#FBBF24", opacity |-> 40]>>

\* A was chosen and drawn, then B was chosen: the list holds B's highlight only
C7_AThenB ==
    /\ mounted # 0
    /\ Highlight(RecA) \in inst[mounted].hl
    /\ calls # <<>> /\ calls[1] = GoToLocation(viewerApis, RecB.pageNumber)
    /\ annotations = <<Highlight(RecB)>>

\* C8: the surface shows no highlight but the one in the annotation list
C8_SurfaceShowsOnlyCurrent ==
    mounted # 0 => inst[mounted].hl \subseteq Range(annotations)

\* C9: a selection run that ends in flight other than by committing has set
\* the error string and cleared loading; it is over (caught, not escaped), and
\* the step starts no run, sets no timer and sends no request
C9_FailureSurfaced ==
    [][\A r \in RunIds :
          (runs[r].kind = "select" /\ runs[r].pc \in {"shot", "search"}
             /\ runs'[r].pc \notin {"shot", "search", "done"})
          => /\ error' = "Failed to process selection. Try again."
             /\ isLoading' = FALSE
             /\ runs'[r] = Ended("select", "failed", FALSE)
             /\ nRuns' = nRuns /\ timers' = timers
             /\ \A q \in RunIds \ {r} : runs'[q] = runs[q]]_vars

\* a selection run has failed and left the error string
C9_RunFailed ==
    /\ \E r \in RunIds : runs[r] = Ended("select", "failed", FALSE)
    /\ error = ErrSelection
    /\ ~isLoading

\* C10: a step in which a choice is dropped (the handle is null) calls nothing
\* on a surface and leaves annotations and surfaces as they were; and no
\* dropped choice is in the annotation list or on the mounted surface later
C10_DroppedNotReplayed ==
    /\ [][(dropped' # dropped /\ dropped \subseteq dropped')
             => /\ viewerApis = 0
                /\ calls' = <<>>
                /\ annotations' = annotations
                /\ inst' = inst]_vars
    /\ [](\A rec \in dropped :
             /\ Highlight(rec) \notin Range(annotations)
             /\ mounted # 0 => Highlight(rec) \notin inst[mounted].hl)

\* a choice was dropped, and the handle has become ready since
C10_ReadyAfterDrop ==
    /\ dropped # {}
    /\ mounted # 0 /\ inst[mounted].pc = "ready" /\ viewerApis = mounted
    /\ annotations = <<>> /\ inst[mounted].hl = {}

\* C11: a step that chooses a recommendation while the handle is ready (the
\* page holds the handle of the mounted surface) calls goToLocation with the
\* recommendation's page and then addAnnotations with that recommendation's
\* highlight alone, both on that handle
C11_GoToThenAdd ==
    [][\A rec \in Range(recommendations) :
          (viewerApis # 0 /\ viewerApis = mounted /\ handleJumpToPage(rec))
          => calls' = <<GoToLocation(viewerApis, rec.pageNumber),
                        AddAnnotations(viewerApis, <<Highlight(rec)>>)>>]_vars

\* B has been chosen with the handle ready: goToLocation, then addAnnotations
C11_ChoseB ==
    /\ mounted # 0 /\ viewerApis = mounted /\ inst[mounted].pc = "ready"
    /\ calls = <<GoToLocation(mounted, RecB.pageNumber),
                 AddAnnotations(mounted, <<Highlight(RecB)>>)>>

\* C15: in the viewer a non-null handle is the handle of the mounted surface
C15_HandleOfCurrentSurface ==
    (currentView = "viewer" /\ viewerApis # 0) => viewerApis = mounted

\* the columns of the bundle in the payload under normalisation
PayloadColumn(field) ==
    Column(SearchResultsOf(payload, Get(payload, "search_results")), field)

\* the payload takes the fallback normalisation path
FallbackPath == ~IsArray(Get(payload, "recommendations"))

\* C12: on the fallback path a missing or malformed page_range of entry k gives
\* pageNumber 1, a missing or malformed chunk_bboxes gives boundingBox
\* [0,0,0,0], and extractAndSearch throws only when one of the first three
\* documents is null or undefined, never because of a metadata record
C12_MalformedMetaDefaults ==
    (normOut.done /\ FallbackPath) =>
        /\ ~normOut.ok =>
              \E k \in 1..Min(Len(PayloadColumn("documents")), MaxRecs) :
                  PayloadColumn("documents")[k].t \in {"null", "undefined"}
        /\ \A k \in 1..Len(normOut.recommendations) :
              /\ Get(At(PayloadColumn("metadatas"), k - 1), "page_range") \in MalformedPageRanges
                    => normOut.recommendations[k].pageNumber = Fix(1)
              /\ Get(At(PayloadColumn("metadatas"), k - 1), "chunk_bboxes") \in MalformedBoxes
                    => normOut.recommendations[k].boundingBox = <<0, 0, 0, 0>>

\* three entries whose bounding boxes have three numbers have been normalised
C12_WrongArityNormalised ==
    /\ normOut.done /\ normOut.ok /\ FallbackPath
    /\ Len(normOut.recommendations) = MaxRecs
    /\ \A k \in 1..MaxRecs :
          /\ Get(At(PayloadColumn("metadatas"), k - 1), "chunk_bboxes")
                = Arr(<<Arr(<<Num(Fix(1)), Num(Fix(2)), Num(Fix(3))>>)>>)
          /\ normOut.recommendations[k].boundingBox = <<0, 0, 0, 0>>
          /\ normOut.recommendations[k].pageNumber = Fix(3)

\* C13: on the fallback path extractAndSearch returns the list, one entry for
\* each of the first three documents, whatever the fields of the entries are
C13_FieldDefaults ==
    (normOut.done /\ FallbackPath) =>
        /\ normOut.ok
        /\ Len(normOut.recommendations) = Min(Len(PayloadColumn("documents")), MaxRecs)

\* C14: a body with an array under recommendations is answered with exactly
\* that array, same entries in the same order
C14_PassThroughUnchanged ==
    (normOut.done /\ IsArray(Get(payload, "recommendations"))) =>
        /\ normOut.ok
        /\ normOut.recommendations = Get(payload, "recommendations").v

\* a body of four different recommendations has been passed through
C14_FourPassedThrough ==
    /\ normOut.done /\ normOut.ok
    /\ payload = Shaped(<<RecB, RecA, RecOver, RecUnder>>)
    /\ normOut.recommendations = <<RecB, RecA, RecOver, RecUnder>>

\* the navigation actions of the user
UserNavigation ==
    \/ \E d \in LibraryDocs : handleDocumentSelect(d)
    \/ \E f \in LocalFiles : handleOpenSinglePdf(f)
    \/ handleBackToLibrary
    \/ handleBackToUpload
    \/ NavLibrary

\* C20: the first view is Upload; a step that changes the view is a navigation
\* action of the user or the successful completion of a bulk upload, which
\* leads to Library; a failed bulk upload leaves the view as it is
C20_ViewTransitions ==
    /\ currentView = "upload"
    /\ [][/\ currentView' # currentView
             => \/ UserNavigation
                \/ (\E mine \in BOOLEAN : UploadSucceeded(mine)) /\ currentView' = "library"
          /\ (\E mine \in BOOLEAN : UploadFailed(mine)) => currentView' = currentView]_vars

\* one bulk upload has completed and led to the library; the user has come
\* back and a second one has failed, leaving the upload view
C20_SucceededThenFailed ==
    /\ upload.started = 2 /\ upload.completed = 1
    /\ upload.status = "error" /\ ~upload.isUploading
    /\ currentView = "upload"
    /\ nInst = 0

\* the operations that read the body with response.json()
JsonOps == GatewayOps \ {"getPdf"}

C17_DetailSurfaced ==
    (gate.pc = "done" /\ gate.op = "getInsights"
       /\ gate.response.net = "ok" /\ ~gate.response.ok) =>
        /\ ~gate.result.ok
        /\ gate.result.message =
              <<"Insights failed", ": ">>
                 \o (IF Truthy(Get(gate.response.body, "detail"))
                     THEN Get(gate.response.body, "detail").v
                     ELSE IF Truthy(Get(gate.response.body, "message"))
                     THEN Get(gate.response.body, "message").v
                     ELSE IF Truthy(Get(gate.response.body, "error"))
                     THEN Get(gate.response.body, "error").v
                     ELSE gate.response.statusText)

\* the list getDocuments has returned, and the list of the backend it was
\* made of
ReturnedDocuments ==
    IF gate.pc = "done" /\ gate.op = "getDocuments" /\ gate.result.ok
    THEN gate.result.value.v ELSE <<>>

BackendList ==
    IF IsArray(Get(gate.response.body, "documents")) THEN Get(gate.response.body, "documents").v
    ELSE IF IsArray(Get(gate.response.body, "pdfs")) THEN Get(gate.response.body, "pdfs").v
    ELSE <<>>

\* the name the fallback id starts from: for a record of the legacy shape its
\* file name, and its name when it has none
FallbackBase(raw) ==
    IF IsArray(Get(gate.response.body, "documents"))
    THEN Trimmed(Get(raw, "name"))
    ELSE OrElse(FilenameOf(raw), Trimmed(Get(raw, "name")))

\* C18, as the code has it: every returned Document has a non-empty id; a
\* record with an id keeps it, trimmed; a record without one (or with a blank
\* one) gets its name, or "doc" when it has no name, with the first ".pdf"
\* taken out, followed by "-" and its index
C18_IdNonEmptyFallback ==
    /\ Len(ReturnedDocuments) = Len(BackendList) \/ ReturnedDocuments = <<>>
    /\ \A k \in 1..Len(ReturnedDocuments) :
          /\ ReturnedDocuments[k].id # <<>>
          /\ Trimmed(Get(BackendList[k], "id")) # <<>>
                => ReturnedDocuments[k].id = Trimmed(Get(BackendList[k], "id"))
          /\ Trimmed(Get(BackendList[k], "id")) = <<>>
                => ReturnedDocuments[k].id =
                      RemoveFirst(OrElse(FallbackBase(BackendList[k]), <<"d", "o", "c">>),
                                  <<".", "p", "d", "f">>)
                          \o <<"-">> \o NatToStr(k - 1)

\* a record without id named a.pdf, second in its list, has got the id a-1
C18_FallbackGiven ==
    /\ Len(ReturnedDocuments) = 2
    /\ Get(BackendList[2], "id").t = "undefined"
    /\ Get(BackendList[2], "name") = Str(PdfA)
    /\ ReturnedDocuments[2].id = <<"a", "-", "1">>

\* the extension taken off a name that ends in .pdf
WithoutExtension(name) ==
    IF Len(name) >= 4 /\ SubSeq(name, Len(name) - 3, Len(name)) = <<".", "p", "d", "f">>
    THEN SubSeq(name, 1, Len(name) - 4) ELSE name

\* C18 as stated: without an id of its own a Document gets its record's name
\* without the .pdf extension, "-" and its index
C18_NameWithoutExtension ==
    \A k \in 1..Len(ReturnedDocuments) :
        /\ ReturnedDocuments[k].id # <<>>
        /\ Trimmed(Get(BackendList[k], "id")) = <<>>
              => ReturnedDocuments[k].id =
                    WithoutExtension(ReturnedDocuments[k].name) \o <<"-">> \o NatToStr(k - 1)

\* C19: the ids of a returned list are pairwise distinct
C19_IdsDistinct ==
    \A j, k \in 1..Len(ReturnedDocuments) :
        j # k => ReturnedDocuments[j].id # ReturnedDocuments[k].id

\* C21: a step in which the response of a selection or Analyze-Page run arrives
\* and is normalised leaves in recommendations exactly the list extractAndSearch
\* returned for it: nothing of the previous list stays but what is in that list
C21_ReplacedWholesale ==
    [][\A r \in RunIds : \A raw \in PagePayloads :
          (SearchDone(r, raw) /\ extractAndSearch(raw).ok)
          => /\ recommendations' = extractAndSearch(raw).recommendations
             /\ runs'[r].committed]_vars

\* A was chosen from the first run's list; the second run has committed a list
\* without A, and nothing of the first list is left
C21_SecondListOnly ==
    /\ \A r \in RunIds : runs[r].pc = "done" /\ runs[r].committed
    /\ annotations = <<Highlight(RecA)>>
    /\ Len(recommendations) = 1
    /\ recommendations[1].id = Str(<<"C">>)
    /\ RecA \notin Range(recommendations) /\ RecB \notin Range(recommendations)

\* the list of the mounted BulkPdfUpload, but for the history field
UploadList == [status |-> upload.status, files |-> upload.files, others |-> upload.others]

\* C22: the upload list never has more than maxFiles entries and none that is
\* not a PDF; a call of handleFiles with no PDF or with more than maxFiles PDFs
\* leaves the list and all other upload state as they were
C22_ListBoundedPdfOnly ==
    /\ [](upload.files + upload.others <= MaxFiles /\ upload.others = 0)
    /\ [][\A files \in FileSelections :
             (handleFiles(files) /\ (files.pdfs = 0 \/ files.pdfs > MaxFiles))
             => upload' = [upload EXCEPT !.rejected = TRUE]]_vars

\* a list of maxFiles pending PDFs is in place after a selection was rejected
C22_FullListKept ==
    /\ currentView = "upload"
    /\ upload.rejected
    /\ UploadList = [status |-> "pending", files |-> MaxFiles, others |-> 0]

\* C23: on the fallback path the pageNumber of entry k is 1 plus the number
\* the first element of that entry's page_range stands for, be the page_range
\* an array or a string-encoded array with single or double quotes
C23_PageNumberFromRange ==
    (normOut.done /\ normOut.ok /\ FallbackPath) =>
        \A k \in 1..Len(normOut.recommendations) : \A c \in PageRangeCases :
            Get(At(PayloadColumn("metadatas"), k - 1), "page_range") = c.range
                => normOut.recommendations[k].pageNumber = c.first + Fix(1)

\* [2], "['7',9]" and "[\"3\"]" at entries 1, 2 and 3 gave pages 3, 8 and 4
C23_ThreeEncodings ==
    /\ normOut.done /\ normOut.ok /\ FallbackPath
    /\ Len(PayloadColumn("metadatas")) = 4
    /\ Get(PayloadColumn("metadatas")[2], "page_range")
          = Str(<<"[", "'", "7", "'", ",", "9", "]">>)
    /\ Get(PayloadColumn("metadatas")[3], "page_range") = Str(<<"[", "\"", "3", "\"", "]">>)
    /\ [k \in 1..3 |-> normOut.recommendations[k].pageNumber] = <<Fix(3), Fix(8), Fix(4)>>

\* distance d clamped to [0,1]
Clamp01(d) == IF d < 0 THEN 0 ELSE IF d > Fix(1) THEN Fix(1) ELSE d

\* distances[k], k counted from 1
DistanceOf(k) == At(PayloadColumn("distances"), k - 1)

\* C24: on the fallback path the relevanceScore of entry i (counted from 0) is
\* 1 - clamp(distance_i, 0, 1) when distances[i] is a number, else 0.8 - 0.1*i
C24_ScoreFromDistance ==
    (normOut.done /\ normOut.ok /\ FallbackPath) =>
        \A k \in 1..Len(normOut.recommendations) :
            normOut.recommendations[k].relevanceScore =
                IF DistanceOf(k).t = "number"
                THEN Fix(1) - Clamp01(DistanceOf(k).v)
                ELSE 80 - 10 * (k - 1)

\* distances -0.5, null and 2.5 gave the scores 1, 0.7 and 0
C24_ClampedAndPlaceholder ==
    /\ normOut.done /\ normOut.ok
    /\ payload = MixedDistances
    /\ [k \in 1..3 |-> normOut.recommendations[k].relevanceScore] = <<Fix(1), 70, 0>>

\* the relevanceScore of output entry k is a double above the threshold: its
\* value in hundredths is, or it is the placeholder 0.8 - 0.1*i of entry 1 or
\* 2, which is above its decimal value
ScoreExceeds(k, threshold) ==
    \/ normOut.recommendations[k].relevanceScore > threshold
    \/ /\ normOut.recommendations[k].relevanceScore = threshold
       /\ DistanceOf(k).t # "number"
       /\ k - 1 \in {1, 2}

\* C25: on the fallback path connectionType is elaboration when the
\* relevanceScore is above 0.8, correlation when it is above 0.6 and not above
\* 0.8, context otherwise, and never contradiction
C25_TypeFromThresholds ==
    (normOut.done /\ normOut.ok /\ FallbackPath) =>
        \A k \in 1..Len(normOut.recommendations) :
            /\ ScoreExceeds(k, 80)
                  => normOut.recommendations[k].connectionType = "elaboration"
            /\ (ScoreExceeds(k, 60) /\ ~ScoreExceeds(k, 80))
                  => normOut.recommendations[k].connectionType = "correlation"
            /\ ~ScoreExceeds(k, 60)
                  => normOut.recommendations[k].connectionType = "context"
            /\ normOut.recommendations[k].connectionType # "contradiction"

\* scores 1, 0.7000000000000001 and 0 gave elaboration, correlation and context
C25_AllThreeTypes ==
    /\ normOut.done /\ normOut.ok /\ FallbackPath
    /\ Len(normOut.recommendations) = 3
    /\ [k \in 1..3 |-> normOut.recommendations[k].relevanceScore] = <<Fix(1), 70, 0>>
    /\ [k \in 1..3 |-> normOut.recommendations[k].connectionType]
          = <<"elaboration", "correlation", "context">>

\* documents[k], k counted from 1
SnippetOf(k) == PayloadColumn("documents")[k]

\* C26: on the fallback path the list has one entry for each of the first
\* three documents, in their order: entry k has the id given at k, and as
\* snippet the document at k when that has at most 200 characters, else its
\* first 200 characters followed by "..."
C26_SnippetTruncated ==
    (normOut.done /\ normOut.ok /\ FallbackPath) =>
        /\ Len(normOut.recommendations) = Min(Len(PayloadColumn("documents")), MaxRecs)
        /\ \A k \in 1..Len(normOut.recommendations) :
              /\ SnippetOf(k).t = "string" =>
                    normOut.recommendations[k].snippet =
                        IF Len(SnippetOf(k).v) > SnippetMax
                        THEN SubSeq(SnippetOf(k).v, 1, SnippetMax) \o <<".", ".", ".">>
                        ELSE SnippetOf(k).v
              /\ Truthy(At(PayloadColumn("ids"), k - 1)) =>
                    normOut.recommendations[k].id = At(PayloadColumn("ids"), k - 1)

\* of four entries the first three were returned in order: the short snippet
\* as it is, the one of 201 characters cut with the marker, the one of 200 as
\* it is
C26_CutInOrder ==
    /\ normOut.done /\ normOut.ok
    /\ payload = OrderedPayload
    /\ [k \in 1..Len(normOut.recommendations) |-> normOut.recommendations[k].snippet]
          = << <<"a">>, Repeat("x", SnippetMax) \o <<".", ".", ".">>, Repeat("y", SnippetMax) >>
    /\ [k \in 1..Len(normOut.recommendations) |-> normOut.recommendations[k].id]
          = << Str(<<"i", "1">>), Str(<<"i", "2">>), Str(<<"i", "3">>) >>

\* C27: every recommendation extractAndSearch returns has pageNumber >= 1
C27_PageNumberAtLeastOne ==
    (normOut.done /\ normOut.ok) =>
        \A k \in 1..Len(normOut.recommendations) :
            normOut.recommendations[k].pageNumber >= Fix(1)

\* what a selection-ended event that is dropped leaves alone
AdapterQuiet == UNCHANGED <<pageVars, asyncVars, lastEventText, burstLen>>

\* C28: PdfViewer calls onTextSelect only with a trimmed text that is not
\* empty; an event whose content is empty or blank, whose timer finds no
\* handle, or whose getSelectedContent fails makes no raw selection event and
\* changes neither error nor any other state of the page
C28_OnlyTrimmedNonEmpty ==
    /\ [][burstLen' = burstLen + 1
             => /\ lastEventText' # <<>>
                /\ Trim(lastEventText') = lastEventText'
                /\ \E tm \in timers' : tm.id = selectionTimerRef' /\ tm.text = lastEventText']_vars
    /\ [][(sel.pc # "idle" /\ sel'.last \in {"skipped", "nohandle", "failed"})
             => AdapterQuiet]_vars
    /\ [][\A content \in SelectedContents :
             (GetSelectedDone(content) /\ content.t = "string" /\ IsBlank(content.v))
             => sel'.last = "skipped"]_vars

\* " b" was passed on as "b"; a later event with blank content was dropped and
\* the pending timer of "b" is still there
C28_BlankDroppedAfterB ==
    /\ sel.pc = "idle" /\ sel.last = "skipped"
    /\ lastEventText = <<"b">>
    /\ \E tm \in timers : tm.id = selectionTimerRef /\ tm.text = <<"b">>
    /\ error = Null

\* C29: a selection run that ends while a document is shown, committing its
\* result or its error, comes from a selection made on that document's
\* PdfViewer instance; and so does a debounce timer that fires and starts a run
C29_NoCommitAcrossDocuments ==
    /\ [][\A r \in RunIds :
             (runs[r].kind = "select" /\ runs[r].pc \in InFlight
                /\ runs'[r].pc \notin InFlight /\ mounted # 0)
             => runs[r].origin = mounted]_vars
    /\ [][\A tm \in timers :
             (TimerFire(tm) /\ nRuns' # nRuns /\ mounted # 0)
             => tm.origin = mounted]_vars

\* C30: once two selection runs have both completed and the one issued later
\* has committed its result, error is null, whatever became of the earlier one
C30_NewerRunErrorFree ==
    (/\ runs[1].kind = "select" /\ runs[2].kind = "select"
     /\ runs[1].pc \in {"done", "failed"}
     /\ runs[2].pc = "done" /\ runs[2].committed)
        => error = Null

\* the selection and Analyze-Page runs in flight
RunsInFlight == {r \in RunIds : runs[r].pc \in InFlight}

\* C31: isLoading is true in every state in which a selection run or an
\* Analyze-Page run is in flight, and false in every state in which none is
C31_LoadingIffInFlight == isLoading <=> RunsInFlight # {}

\* C32: under fair completion of timers, captures and requests, every run
\* that has started ends with isLoading false, and every insights fetch that
\* has started ends with isInsightsLoading false
C32_RunsTerminate ==
    /\ \A r \in RunIds :
          (runs[r].pc \in InFlight)
              ~> (runs[r].pc \in {"done", "failed"} /\ ~isLoading)
    /\ (insightsRun.pc # "idle")
          ~> (insightsRun.pc = "idle" /\ ~isInsightsLoading)

\* C33: a completion of a bulk upload that arrives while the page is not in
\* the Upload view leaves the current view as it is and leaves no document
\* outside the viewer
C33_LateCompletionIgnored ==
    [][(currentView # "upload" /\ upload'.completed # upload.completed)
          => /\ currentView' = currentView
             /\ (document' # Null => currentView' = "viewer")]_vars

\* C34: in the viewer the document is never null, and a step that enters
\* the viewer is a choice of a library document or the opening of a local file
C34_ViewerHasDocument ==
    /\ [](currentView = "viewer" => document # Null)
    /\ [][(currentView # "viewer" /\ currentView' = "viewer")
             => \/ \E d \in LibraryDocs : handleDocumentSelect(d)
                \/ \E f \in LocalFiles : handleOpenSinglePdf(f)]_vars

\* the viewer shows a library document, entered after an upload completed and
\* after an earlier viewer was left
C34_ViewerAfterCompletion ==
    /\ currentView = "viewer" /\ document \in LibraryDocs
    /\ selectedDocument = document
    /\ nInst = 2 /\ mounted = 2
    /\ upload.completed >= 1

\* C35: in the Upload view neither a document nor a selected library
\* document is set
C35_UploadHasNoDocument ==
    currentView = "upload" => (document = Null /\ selectedDocument = Null)

\* the Upload view, entered again after two documents were viewed and an
\* upload completed
C35_BackInUpload ==
    /\ currentView = "upload" /\ document = Null /\ selectedDocument = Null
    /\ nInst = 2 /\ mounted = 0
    /\ upload.completed >= 1

\* C36: a click on the Insights button with insights set clears them and
\* sends nothing; with insights null the click clears recommendations and
\* error, the call has sent the search request when it returns, and insights
\* are set only by a call that has sent the search and the insights request
C36_SearchThenInsights ==
    [][/\ (handleFetchInsights /\ insights # Null)
             => (insights' = Null /\ insightsRun' = insightsRun)
       /\ (handleFetchInsights /\ insights = Null)
             => (recommendations' = <<>> /\ error' = Null)
       /\ (insightsRun.pc # "idle" /\ insightsRun'.pc = "idle")
             => insightsRun.reqs # <<>>
       /\ (insights' # Null /\ insights' # insights)
             => Len(insightsRun.reqs) = 2]_vars

\* the moves of the entries' status that C37 allows
StatusMoves ==
    { <<"pending", "uploading">>, <<"uploading", "success">>, <<"uploading", "error">> }

\* C37: isUploading is true exactly while the component's own request is
\* pending; while it is, and whenever the entries come to be uploading,
\* success or error, their status makes one of the three allowed moves (a
\* step after which the list is empty or the component gone aside); and a
\* step that calls onUploadComplete calls it once and is the success of an
\* upload
C37_UploadStatuses ==
    /\ [](upload.isUploading <=> upload.own = 1)
    /\ [][(/\ upload'.status \notin {upload.status, "none"}
           /\ upload.isUploading \/ upload'.status # "pending")
             => <<upload.status, upload'.status>> \in StatusMoves]_vars
    /\ [][upload'.completed # upload.completed
             => /\ upload'.completed = upload.completed + 1
                /\ \E mine \in BOOLEAN : UploadSucceeded(mine)]_vars

=============================================================================
